---- MODULE Spec2Model ----
(***************************************************************************)
(* cipher-gate: the Folder and File models (schemas, fullPath virtual,     *)
(* pre-save hooks, hasPermission, getBreadcrumbs), the folder controller   *)
(* (createFolder, updateFolder, deleteFolder, moveFolder, shareFolder,     *)
(* unshareFolder, calculateFolderSize, searchInFolder), the file           *)
(* controller (uploadFile, downloadFile, updateFile, deleteFile, shareFile,*)
(* unshareFile, quarantineFile, restoreFile), the risk scoring services    *)
(* and the relocations of the storage service, over a database of folder   *)
(* and file records, the users' storageUsed and the keys of the bucket.    *)
(* createFolder, moveFolder, uploadFile and deleteFile are also modelled   *)
(* one await at a time, with two requests in progress.                     *)
(*                                                                         *)
(* A path is a sequence of tokens: "/" and folder names, so that string    *)
(* concatenation is sequence concatenation ("/A/" is <<"/", "A", "/">>).   *)
(* Each handler is an operator from the database and the request to the    *)
(* database it leaves and the response it sends; an action applies it.     *)
(* The models keep the paths the handlers read and write; the validation   *)
(* of the other paths of the schemas is not modelled.                      *)
(***************************************************************************)
EXTENDS Integers, Sequences, FiniteSets, TLC

VARIABLES
    folders,       \* the Folder collection: _id -> record
    files,         \* the File collection: _id -> record
    nextFolderId,  \* the next fresh Folder _id (ObjectIds are never reused)
    nextFileId,    \* the next fresh File _id
    storageUsed,   \* users' storageUsed: account -> size
    bucket,        \* the keys of the objects in the storage bucket
    last,          \* the last request that changed the database, and its response
    nops,          \* the number of requests that changed the database
    budget,        \* the number of such requests a run is followed for
    probe,         \* one call of a function of the models: arguments and result
    procs          \* the requests in progress: request -> its position and locals

vars == <<folders, files, nextFolderId, nextFileId, storageUsed, bucket,
          last, nops, budget, probe, procs>>

\* ------------------------------------------------------------------ bounds
MaxFolders == 3
MaxFiles == 2
MaxOps == 4
\* config.aws.s3.maxFileSize and the users' storageQuota, scaled down
MaxFileSize == 2
StorageQuota == 2
\* the length of the runs of creates, moves and deletes followed for the counters
MaxCountOps == 5

\* the most grants on one probed document
MaxGrants == 2

\* the User collection
Accounts == {"u1", "u2", "u3"}
\* the role of each account (ROLES of the user model); a request carries it as
\* req.user.role
Role == [u \in Accounts |-> IF u = "u3" THEN "admin" ELSE "user"]
\* the accounts whose requests are followed
Users == {"u1", "u2"}
Names == {"A", "B"}
\* a request may also carry an empty name
NameInputs == Names \cup {""}

\* `null` (no parent, no folder)
Null == 0

\* the sizes an upload may have: up to one over the limit
SizeInputs == 1..(MaxFileSize + 1)

FolderIds == 1..MaxFolders
FileIds == 1..MaxFiles

\* FILE_PERMISSIONS, in the order of Object.values
PermissionLevels == <<"view", "edit", "manage">>

\* the permissions a request may name: the three levels and one that is none
PermissionInputs == {"view", "edit", "manage", "admin"}

\* the messages a share request may carry; "" is no message
MessageInputs == {"", "m"}

\* Array.prototype.indexOf: the 0-based index of x in s, or -1
IndexOf(s, x) ==
    IF \E i \in 1..Len(s) : s[i] = x
    THEN (CHOOSE i \in 1..Len(s) : s[i] = x /\ \A j \in 1..(i - 1) : s[j] # x) - 1
    ELSE -1

\* ---------------------------------------------------------- the Folder model

\* a sharedWith entry
Grant(userId, permission, sharedBy, message) ==
    [user |-> userId, permission |-> permission, sharedBy |-> sharedBy,
     message |-> message]

\* a new Folder document with the schema's defaults
NewFolder(name, parent, owner) ==
    [name |-> name, parent |-> parent, path |-> <<"/">>, owner |-> owner,
     sharedWith |-> <<>>, isTrash |-> FALSE, folderCount |-> 0,
     fileCount |-> 0, totalSize |-> 0, deletedAt |-> FALSE,
     description |-> "", tags |-> {}]

\* The schema declares no deletedAt path and is strict: a deletedAt set on a
\* document or named in an update is not persisted.
SchemaHasDeletedAt == FALSE

\* what a write stores for deletedAt
StoredDeletedAt(old, new) == IF SchemaHasDeletedAt THEN new ELSE old

\* virtual fullPath
fullPath(f) ==
    IF f.parent = Null THEN <<"/", f.name>> ELSE f.path \o <<f.name, "/">>

\* mutant of hasPermission: any grant entry passes, whatever its level
hasPermissionAnyGrant(f, userId, requiredPermission) ==
    IF f.owner = userId THEN TRUE
    ELSE \E i \in 1..Len(f.sharedWith) : f.sharedWith[i].user = userId

\* methods.hasPermission
hasPermission(f, userId, requiredPermission) ==
    IF f.owner = userId THEN TRUE
    ELSE IF ~\E i \in 1..Len(f.sharedWith) : f.sharedWith[i].user = userId THEN FALSE
    ELSE LET k == CHOOSE i \in 1..Len(f.sharedWith) :
                      /\ f.sharedWith[i].user = userId
                      /\ \A j \in 1..(i - 1) : f.sharedWith[j].user # userId
             userLevel == IndexOf(PermissionLevels, f.sharedWith[k].permission)
             requiredLevel == IndexOf(PermissionLevels, requiredPermission)
         IN  userLevel >= requiredLevel

\* fileSchema.methods.hasPermission
fileHasPermission(f, userId, requiredPermission) ==
    IF f.owner = userId THEN TRUE
    ELSE IF ~\E i \in 1..Len(f.sharedWith) : f.sharedWith[i].user = userId THEN FALSE
    ELSE LET k == CHOOSE i \in 1..Len(f.sharedWith) :
                      /\ f.sharedWith[i].user = userId
                      /\ \A j \in 1..(i - 1) : f.sharedWith[j].user # userId
             userLevel == IndexOf(PermissionLevels, f.sharedWith[k].permission)
             requiredLevel == IndexOf(PermissionLevels, requiredPermission)
         IN  userLevel >= requiredLevel

\* updateOne({_id: id}, {$inc: {folderCount: d}}): no document, no change
IncFolderCount(fs, id, d) ==
    IF id \in DOMAIN fs THEN [fs EXCEPT ![id].folderCount = @ + d] ELSE fs

\* pre('save') of a new document, then the insert: the path is overwritten
\* with the parent's fullPath and the parent's folderCount is incremented
PreSaveNew(fs, id, doc) ==
    LET d1 == IF doc.parent # Null /\ doc.parent \in DOMAIN fs
              THEN [doc EXCEPT !.path = fullPath(fs[doc.parent])]
              ELSE doc
        fs1 == IF doc.parent # Null THEN IncFolderCount(fs, doc.parent, 1) ELSE fs
    IN  (id :> [d1 EXCEPT !.deletedAt = StoredDeletedAt(FALSE, d1.deletedAt)]) @@ fs1

\* pre('save') of an existing document, then the update of its modified
\* paths.  When the parent is modified the hook calls the model file's own
\* updateDescendantPaths, a plain function that reads this.constructor.find:
\* it has no document as `this`, the call throws a TypeError before any read
\* or write, the save is rejected and nothing is written.
\* The result is [folders, ok].
PreSaveExisting(fs, id, doc) ==
    IF doc.parent # fs[id].parent
    THEN [folders |-> fs, ok |-> FALSE]
    ELSE [folders |-> [fs EXCEPT ![id] =
                 [doc EXCEPT !.deletedAt = StoredDeletedAt(fs[id].deletedAt, doc.deletedAt)]],
          ok |-> TRUE]

\* ------------------------------------------------------ the folder controller

\* mutant of ExistingFolder: the query matches folders in the trash instead of
\* the live ones
ExistingFolderInTrash(fs, name, parent, owner, except) ==
    \E i \in DOMAIN fs :
        /\ fs[i].name = name
        /\ fs[i].parent = parent
        /\ fs[i].owner = owner
        /\ fs[i].isTrash
        /\ i # except

\* Folder.findOne({name, parent, owner, isTrash: false, _id: {$ne: except}})
ExistingFolder(fs, name, parent, owner, except) ==
    \E i \in DOMAIN fs :
        /\ fs[i].name = name
        /\ fs[i].parent = parent
        /\ fs[i].owner = owner
        /\ ~fs[i].isTrash
        /\ i # except

\* the owner-or-grant test every handler makes
MayAccess(f, userId, required) ==
    ~(f.owner # userId /\ ~hasPermission(f, userId, required))

\* what a handler leaves and answers (the files are the caller's, unchanged)
Reply(fs, status) == [folders |-> fs, status |-> status]

\* exports.createFolder; id is the new document's _id
CreateFolderOp(fs, userId, name, parent, id) ==
    IF name = "" THEN Reply(fs, "BadRequest")
    ELSE IF ExistingFolder(fs, name, parent, userId, Null) THEN Reply(fs, "NameConflict")
    ELSE IF parent # Null
    THEN IF parent \notin DOMAIN fs THEN Reply(fs, "NotFound")
         ELSE IF ~MayAccess(fs[parent], userId, "edit") THEN Reply(fs, "Forbidden")
         ELSE LET saved == PreSaveExisting(fs, parent,
                               [fs[parent] EXCEPT !.folderCount = @ + 1])
                  fs1 == saved.folders
                  doc == [NewFolder(name, parent, userId) EXCEPT
                             !.path = fs1[parent].path \o <<fs1[parent].name, "/">>]
              IN  Reply(PreSaveNew(fs1, id, doc), "Created")
    ELSE Reply(PreSaveNew(fs, id, NewFolder(name, Null, userId)), "Created")

\* mutant of UpdateFolderOp: the new name is saved before the name-conflict
\* answer is sent
UpdateFolderOpRenameFirst(fs, userId, id, name) ==
    IF id \notin DOMAIN fs THEN Reply(fs, "NotFound")
    ELSE IF ~MayAccess(fs[id], userId, "edit") THEN Reply(fs, "Forbidden")
    ELSE LET doc == IF name # "" THEN [fs[id] EXCEPT !.name = name] ELSE fs[id]
             saved == PreSaveExisting(fs, id, doc).folders
         IN  IF name # "" /\ ExistingFolder(fs, name, fs[id].parent, fs[id].owner, id)
             THEN Reply(saved, "NameConflict")
             ELSE Reply(saved, "OK")

\* exports.updateFolder, the name of the request body
UpdateFolderOp(fs, userId, id, name) ==
    IF id \notin DOMAIN fs THEN Reply(fs, "NotFound")
    ELSE IF ~MayAccess(fs[id], userId, "edit") THEN Reply(fs, "Forbidden")
    ELSE IF name # "" /\ ExistingFolder(fs, name, fs[id].parent, fs[id].owner, id)
    THEN Reply(fs, "NameConflict")
    ELSE LET doc == IF name # "" THEN [fs[id] EXCEPT !.name = name] ELSE fs[id]
         IN  Reply(PreSaveExisting(fs, id, doc).folders, "OK")

\* mutant of isDescendantFolder: looks at the parent of childId and does not
\* walk further up
isDirectChildFolder(fs, parentId, childId) ==
    IF parentId = Null \/ childId = Null THEN FALSE
    ELSE IF childId \notin DOMAIN fs THEN FALSE
    ELSE fs[childId].parent # Null /\ fs[childId].parent = parentId

\* isDescendantFolder(parentId, childId): walks up from childId
RECURSIVE isDescendantFolder(_, _, _)
isDescendantFolder(fs, parentId, childId) ==
    IF parentId = Null \/ childId = Null THEN FALSE
    ELSE IF childId \notin DOMAIN fs THEN FALSE
    ELSE IF fs[childId].parent # Null /\ fs[childId].parent = parentId THEN TRUE
    ELSE isDescendantFolder(fs, parentId, fs[childId].parent)

\* the controller's updateDescendantPaths(parentId, parentPath)
RECURSIVE updateDescendantPaths(_, _, _), UpdateChildren(_, _, _)
updateDescendantPaths(fs, parentId, parentPath) ==
    UpdateChildren(fs, {c \in DOMAIN fs : fs[c].parent = parentId}, parentPath)

UpdateChildren(fs, children, parentPath) ==
    IF children = {} THEN fs
    ELSE LET child == CHOOSE c \in children : TRUE
             newPath == parentPath \o <<fs[child].name, "/">>
             fs1 == IF fs[child].path # newPath
                    THEN updateDescendantPaths(
                             PreSaveExisting(fs, child,
                                 [fs[child] EXCEPT !.path = newPath]).folders,
                             child, newPath)
                    ELSE fs
         IN  UpdateChildren(fs1, children \ {child}, parentPath)

\* mutant of MoveFolderOp: the new parent is written with an update that runs
\* no hook, and the circular-reference checks are left out
MoveFolderOpNoCycleCheck(fs, userId, id, parentId) ==
    IF id \notin DOMAIN fs THEN Reply(fs, "NotFound")
    ELSE IF ~MayAccess(fs[id], userId, "edit") THEN Reply(fs, "Forbidden")
    ELSE IF parentId = Null
    THEN Reply([fs EXCEPT ![id].parent = Null, ![id].path = <<"/">>], "OK")
    ELSE IF parentId \notin DOMAIN fs THEN Reply(fs, "NotFound")
    ELSE IF ~MayAccess(fs[parentId], userId, "edit") THEN Reply(fs, "Forbidden")
    ELSE Reply([fs EXCEPT ![id].parent = parentId,
                          ![id].path = fs[parentId].path \o <<fs[parentId].name, "/">>],
               "OK")

\* exports.moveFolder
MoveFolderOp(fs, userId, id, parentId) ==
    IF id \notin DOMAIN fs THEN Reply(fs, "NotFound")
    ELSE IF ~MayAccess(fs[id], userId, "edit") THEN Reply(fs, "Forbidden")
    ELSE IF parentId = Null
    THEN LET fs1 == IF fs[id].parent # Null
                    THEN IncFolderCount(fs, fs[id].parent, -1) ELSE fs
             saved == PreSaveExisting(fs1, id,
                          [fs1[id] EXCEPT !.parent = Null, !.path = <<"/">>])
         IN  IF saved.ok
             THEN Reply(updateDescendantPaths(saved.folders, id, <<"/">>), "OK")
             ELSE Reply(saved.folders, "ServerError")
    ELSE IF parentId \notin DOMAIN fs THEN Reply(fs, "NotFound")
    ELSE IF ~MayAccess(fs[parentId], userId, "edit") THEN Reply(fs, "Forbidden")
    ELSE IF id = parentId THEN Reply(fs, "Circular")
    ELSE IF isDescendantFolder(fs, id, parentId) THEN Reply(fs, "Circular")
    ELSE IF ExistingFolder(fs, fs[id].name, parentId, fs[id].owner, id)
    THEN Reply(fs, "NameConflict")
    ELSE LET old == fs[id].parent
             fs1 == IF old # Null /\ old # parentId
                    THEN IncFolderCount(fs, old, -1) ELSE fs
             fs2 == IF old = Null \/ old # parentId
                    THEN IncFolderCount(fs1, parentId, 1) ELSE fs1
             newPath == fs[parentId].path \o <<fs[parentId].name, "/">>
             saved == PreSaveExisting(fs2, id,
                          [fs2[id] EXCEPT !.parent = parentId, !.path = newPath])
         IN  IF saved.ok
             THEN Reply(updateDescendantPaths(saved.folders, id, newPath), "OK")
             ELSE Reply(saved.folders, "ServerError")

\* ------------------------------------------------------------- deleteFolder

\* a database: both collections
Db(fs, fl) == [folders |-> fs, files |-> fl]

\* the function f without the keys in gone
Without(f, gone) == [k \in DOMAIN f \ gone |-> f[k]]

\* mutant of deleteFolderRecursive: deletes the folder and its files and does
\* not descend into the subfolders
deleteFolderShallow(db, folderId) ==
    Db(Without(db.folders, {folderId}),
       Without(db.files, {x \in DOMAIN db.files : db.files[x].folder = folderId}))

\* deleteFolderRecursive(folderId)
RECURSIVE deleteFolderRecursive(_, _), DeleteSubfolders(_, _)
deleteFolderRecursive(db, folderId) ==
    LET fl1 == Without(db.files,
                   {x \in DOMAIN db.files : db.files[x].folder = folderId})
        subfolders == {c \in DOMAIN db.folders : db.folders[c].parent = folderId}
        db2 == DeleteSubfolders(Db(db.folders, fl1), subfolders)
    IN  Db(Without(db2.folders, {folderId}), db2.files)

DeleteSubfolders(db, subfolders) ==
    IF subfolders = {} THEN db
    ELSE LET c == CHOOSE x \in subfolders : TRUE
         IN  DeleteSubfolders(deleteFolderRecursive(db, c), subfolders \ {c})

\* File.updateMany({folder: id}, {status: 'deleted', deletedAt}): the File
\* schema declares no deletedAt either
TrashFilesIn(fl, id) ==
    [x \in DOMAIN fl |->
        IF fl[x].folder = id THEN [fl[x] EXCEPT !.status = "deleted"] ELSE fl[x]]

\* Folder.updateMany({parent: id}, {isTrash: true, deletedAt})
TrashSubfoldersOf(fs, id) ==
    [c \in DOMAIN fs |->
        IF fs[c].parent = id
        THEN [fs[c] EXCEPT !.isTrash = TRUE,
                           !.deletedAt = StoredDeletedAt(fs[c].deletedAt, TRUE)]
        ELSE fs[c]]

\* mutant of DeleteFolderOp: a permanent delete does not look the folder up
\* first and answers with success whatever the id
DeleteFolderOpNoLookup(db, userId, id, permanent) ==
    LET fs == db.folders
        Answer(d, status) == [folders |-> d.folders, files |-> d.files, status |-> status]
    IN  IF permanent
        THEN LET db1 == deleteFolderRecursive(db, id)
                 fs2 == IF id \in DOMAIN fs /\ fs[id].parent # Null
                        THEN IncFolderCount(db1.folders, fs[id].parent, -1)
                        ELSE db1.folders
             IN  Answer(Db(fs2, db1.files), "OK")
        ELSE IF id \notin DOMAIN fs THEN Answer(db, "NotFound")
        ELSE IF ~MayAccess(fs[id], userId, "manage") THEN Answer(db, "Forbidden")
        ELSE LET saved == PreSaveExisting(fs, id,
                              [fs[id] EXCEPT !.isTrash = TRUE, !.deletedAt = TRUE])
                 fs2 == IF fs[id].parent # Null
                        THEN IncFolderCount(saved.folders, fs[id].parent, -1)
                        ELSE saved.folders
             IN  Answer(Db(TrashSubfoldersOf(fs2, id), TrashFilesIn(db.files, id)), "OK")

\* exports.deleteFolder; the result is [folders, files, status]
DeleteFolderOp(db, userId, id, permanent) ==
    LET fs == db.folders
        Answer(d, status) == [folders |-> d.folders, files |-> d.files, status |-> status]
    IN  IF id \notin DOMAIN fs THEN Answer(db, "NotFound")
        ELSE IF ~MayAccess(fs[id], userId, "manage") THEN Answer(db, "Forbidden")
        ELSE IF permanent
        THEN LET db1 == deleteFolderRecursive(db, id)
                 fs2 == IF fs[id].parent # Null
                        THEN IncFolderCount(db1.folders, fs[id].parent, -1)
                        ELSE db1.folders
             IN  Answer(Db(fs2, db1.files), "OK")
        ELSE LET saved == PreSaveExisting(fs, id,
                              [fs[id] EXCEPT !.isTrash = TRUE, !.deletedAt = TRUE])
                 fs1 == saved.folders
                 fs2 == IF fs[id].parent # Null
                        THEN IncFolderCount(fs1, fs[id].parent, -1) ELSE fs1
                 fl3 == TrashFilesIn(db.files, id)
                 fs4 == TrashSubfoldersOf(fs2, id)
             IN  Answer(Db(fs4, fl3), "OK")

\* ------------------------------------------------- shareFolder, unshareFolder

\* Array.prototype.findIndex on sharedWith: the 1-based place of the first
\* grant of userId, or 0
ShareIndex(sharedWith, userId) ==
    IF \E i \in 1..Len(sharedWith) : sharedWith[i].user = userId
    THEN CHOOSE i \in 1..Len(sharedWith) :
             /\ sharedWith[i].user = userId
             /\ \A j \in 1..(i - 1) : sharedWith[j].user # userId
    ELSE 0

\* exports.shareFolder
ShareFolderOp(fs, currentUserId, id, userId, permission, message) ==
    IF IndexOf(PermissionLevels, permission) = -1 THEN Reply(fs, "BadRequest")
    ELSE IF id \notin DOMAIN fs THEN Reply(fs, "NotFound")
    ELSE IF ~MayAccess(fs[id], currentUserId, "manage") THEN Reply(fs, "Forbidden")
    ELSE IF userId = currentUserId THEN Reply(fs, "BadRequest")
    ELSE IF userId \notin Accounts THEN Reply(fs, "NotFound")
    ELSE LET grant == Grant(userId, permission, currentUserId, message)
             k == ShareIndex(fs[id].sharedWith, userId)
             shared == IF k > 0
                       THEN [fs[id].sharedWith EXCEPT ![k] = grant]
                       ELSE Append(fs[id].sharedWith, grant)
         IN  Reply(PreSaveExisting(fs, id, [fs[id] EXCEPT !.sharedWith = shared]).folders,
                   "OK")

\* exports.unshareFolder
UnshareFolderOp(fs, currentUserId, id, userId) ==
    IF id \notin DOMAIN fs THEN Reply(fs, "NotFound")
    ELSE IF ~MayAccess(fs[id], currentUserId, "manage") THEN Reply(fs, "Forbidden")
    ELSE LET k == ShareIndex(fs[id].sharedWith, userId)
             sw == fs[id].sharedWith
         IN  IF k = 0 THEN Reply(fs, "NotFound")
             ELSE Reply(PreSaveExisting(fs, id, [fs[id] EXCEPT !.sharedWith =
                            SubSeq(sw, 1, k - 1) \o SubSeq(sw, k + 1, Len(sw))]).folders,
                        "OK")

\* ----------------------------------------------------- shareFile, unshareFile

\* what a file handler leaves and answers
FileReply(fl, status) == [files |-> fl, status |-> status]

\* shareFile; permission "" is a body without one, which defaults to view.
\* An existing entry keeps its sharedBy and message: only its permission (and
\* sharedAt) is assigned.
ShareFileOp(fl, userId, id, shareWithUserId, permissionInput, message) ==
    LET permission == IF permissionInput = "" THEN "view" ELSE permissionInput
    IN  IF permission \notin {"view", "edit"} THEN FileReply(fl, "BadRequest")
        ELSE IF userId = shareWithUserId THEN FileReply(fl, "BadRequest")
        ELSE IF ~(id \in DOMAIN fl /\ fl[id].owner = userId)
        THEN FileReply(fl, "NotFound")
        ELSE IF shareWithUserId \notin Accounts THEN FileReply(fl, "NotFound")
        ELSE LET k == ShareIndex(fl[id].sharedWith, shareWithUserId)
                 shared == IF k > 0
                           THEN [fl[id].sharedWith EXCEPT ![k].permission = permission]
                           ELSE Append(fl[id].sharedWith,
                                    Grant(shareWithUserId, permission, userId, message))
             IN  FileReply([fl EXCEPT ![id].sharedWith = shared], "OK")

\* unshareFile
UnshareFileOp(fl, userId, id, shareWithUserId) ==
    IF ~(id \in DOMAIN fl /\ fl[id].owner = userId) THEN FileReply(fl, "NotFound")
    ELSE LET k == ShareIndex(fl[id].sharedWith, shareWithUserId)
             sw == fl[id].sharedWith
         IN  IF k = 0 THEN FileReply(fl, "NotFound")
             ELSE FileReply([fl EXCEPT ![id].sharedWith =
                                SubSeq(sw, 1, k - 1) \o SubSeq(sw, k + 1, Len(sw))],
                            "OK")

\* ---------------------------------------------------------------- uploadFile

\* a storage key: the area of the bucket and the object's name in it
Key(area, name) == <<area, name>>
\* a storage.key that was never set
NoKey == <<>>

\* a new File document with the schema's defaults.  The model keeps the paths
\* the handlers read and write; the validation of the other paths of the
\* schema is not modelled.
NewFile(folderId, owner) ==
    [folder |-> folderId, owner |-> owner, status |-> "active", sharedWith |-> <<>>,
     size |-> 0, key |-> NoKey, versions |-> <<>>, currentVersion |-> 1,
     quarantinedAt |-> FALSE, restoredAt |-> FALSE, name |-> "A", downloads |-> 0,
     description |-> ""]

\* The File schema declares none of quarantinedAt, quarantinedBy,
\* quarantineReason, restoredAt, restoredBy, restoreReason and is strict: they
\* are not persisted.
FileSchemaHasStamps == FALSE

\* mutant of SaveFile: the hook keeps only the entry of this save
SaveFileHistoryReset(old, doc) ==
    IF doc.key # old.key /\ doc.key # NoKey
    THEN [doc EXCEPT !.versions = <<[version |-> doc.currentVersion,
                                     storageKey |-> doc.key, size |-> doc.size]>>,
                     !.currentVersion = @ + 1,
                     !.quarantinedAt = old.quarantinedAt,
                     !.restoredAt = old.restoredAt]
    ELSE [doc EXCEPT !.quarantinedAt = old.quarantinedAt,
                     !.restoredAt = old.restoredAt]

\* fileSchema.pre('save') and the write, for a document that is not new: when
\* storage.key is modified, the hook pushes a version entry built from the
\* document as it is now (this.storage.key is already the new key) and
\* increments currentVersion
SaveFile(old, doc) ==
    LET d1 == IF doc.key # old.key /\ doc.key # NoKey
              THEN [doc EXCEPT
                       !.versions = Append(@, [version |-> doc.currentVersion,
                                               storageKey |-> doc.key,
                                               size |-> doc.size]),
                       !.currentVersion = @ + 1]
              ELSE doc
    IN  [d1 EXCEPT
            !.quarantinedAt = IF FileSchemaHasStamps THEN @ ELSE old.quarantinedAt,
            !.restoredAt = IF FileSchemaHasStamps THEN @ ELSE old.restoredAt]

\* the collections and the bucket a file handler works on
Store(fl, used, bk) == [files |-> fl, storageUsed |-> used, bucket |-> bk]

\* what a file handler leaves and answers
StoreReply(st, status) ==
    [files |-> st.files, storageUsed |-> st.storageUsed, bucket |-> st.bucket,
     status |-> status]

\* the verdicts of the risk assessment: benign; malicious or high risk; and
\* "error" when the assessment throws
Verdicts == {"benign", "blocked", "error"}

\* -------------------------------------------------------- the risk assessment

\* the scores of an assessment
MaxScore == 100
Scores == 0..MaxScore

\* _getRiskLevel, the same in both services
getRiskLevel(score) ==
    IF score >= 80 THEN "critical"
    ELSE IF score >= 60 THEN "high"
    ELSE IF score >= 40 THEN "medium"
    ELSE IF score >= 20 THEN "low"
    ELSE "info"

\* an assessment, as far as uploadFile reads it
Assessment(riskScore, riskLevel, isMalicious) ==
    [riskScore |-> riskScore, riskLevel |-> riskLevel, isMalicious |-> isMalicious]

\* RiskScoringService._handleError and MockRiskScoringService._getErrorResponse
handleError == Assessment(100, "high", TRUE)

\* what the model endpoint answers, or how the call ends: data with a score
\* and an is_malicious flag; no data; a failure or a timeout, which the
\* service catches; and a rejection that reaches uploadFile
ReplyKinds == {"data", "empty", "failure", "throws"}
Reply2(kind, score, is_malicious) ==
    [kind |-> kind, score |-> score, is_malicious |-> is_malicious]
Replies ==
    {Reply2("data", score, m) : score \in Scores, m \in BOOLEAN}
        \cup {Reply2(kind, 0, FALSE) : kind \in ReplyKinds \ {"data"}}

Backends == {"real", "mock"}

\* calculateRiskScore of the real service (_processRiskResponse) and of the
\* mock (isMalicious is riskScore >= 70), for a call that returns
calculateRiskScore(backend, reply) ==
    IF reply.kind = "failure" THEN handleError
    ELSE IF backend = "mock"
    THEN Assessment(reply.score, getRiskLevel(reply.score), reply.score >= 70)
    ELSE IF reply.kind = "empty" THEN Assessment(0, "low", FALSE)
    ELSE Assessment(reply.score, getRiskLevel(reply.score), reply.is_malicious)

\* what uploadFile makes of an assessment: blocked when it is malicious or
\* its level is 'high'
Verdict(assessment) ==
    IF assessment.isMalicious \/ assessment.riskLevel = "high" THEN "blocked"
    ELSE "benign"

\* the verdict uploadFile reaches for a call of the service
VerdictOf(backend, reply) ==
    IF reply.kind = "throws" THEN "error"
    ELSE Verdict(calculateRiskScore(backend, reply))

\* where an upload can fail after its checks: nowhere; in the storage upload;
\* in the save of the stored locator; in the save of the user's usage; in the
\* enqueueing of the scan
UploadFaults == {"none", "storage", "saveLocator", "usage", "enqueue"}

\* uploadFile; id is the new document's _id.  The record is saved first
\* (quarantined when the assessment threw, else active), then the bytes are
\* stored, the locator saved with status active, the usage added and the scan
\* enqueued; a failure in these steps deletes the record and answers 500.
UploadFileOp(st, userId, folderId, size, verdict, fault, id) ==
    IF size > MaxFileSize THEN StoreReply(st, "BadRequest")
    ELSE IF verdict = "blocked" THEN StoreReply(st, "Blocked")
    ELSE IF userId \notin Accounts THEN StoreReply(st, "NotFound")
    ELSE IF st.storageUsed[userId] + size > StorageQuota
    THEN StoreReply(st, "QuotaExceeded")
    ELSE LET first == [NewFile(folderId, userId) EXCEPT
                          !.size = size,
                          !.status = IF verdict = "error" THEN "quarantined"
                                     ELSE "active"]
             stored == SaveFile(first, [first EXCEPT !.key = Key("uploads", id),
                                                      !.status = "active"])
             bk == IF fault = "storage" THEN st.bucket
                   ELSE st.bucket \cup {Key("uploads", id)}
             used == IF fault \in {"none", "enqueue"}
                     THEN [st.storageUsed EXCEPT ![userId] = @ + size]
                     ELSE st.storageUsed
         IN  IF fault = "none"
             THEN StoreReply(Store((id :> stored) @@ st.files, used, bk), "Created")
             ELSE StoreReply(Store(st.files, used, bk), "ServerError")

\* ------------------------------------- downloadFile, updateFile, deleteFile

\* the filter of downloadFile: the owner, or a document with an entry for the
\* user and an entry (the same or another) whose permission is view or edit
DownloadFilter(file, userId) ==
    \/ file.owner = userId
    \/ /\ \E i \in 1..Len(file.sharedWith) : file.sharedWith[i].user = userId
       /\ \E j \in 1..Len(file.sharedWith) :
              file.sharedWith[j].permission \in {"view", "edit"}

\* downloadFile; urlOk is whether the signed URL is made
DownloadFileOp(fl, userId, id, urlOk) ==
    IF id \notin DOMAIN fl \/ ~DownloadFilter(fl[id], userId)
    THEN FileReply(fl, "NotFound")
    ELSE IF fl[id].status = "quarantined" THEN FileReply(fl, "Forbidden")
    ELSE IF ~urlOk THEN FileReply(fl, "ServerError")
    ELSE FileReply([fl EXCEPT ![id] =
                       SaveFile(fl[id], [fl[id] EXCEPT !.downloads = @ + 1])],
                   "Redirect")

\* updateFile; name "" is a request with no name
UpdateFileOp(fl, userId, id, name) ==
    IF id \notin DOMAIN fl \/ fl[id].owner # userId THEN FileReply(fl, "NotFound")
    ELSE FileReply([fl EXCEPT ![id] =
                       SaveFile(fl[id], IF name # "" THEN [fl[id] EXCEPT !.name = name]
                                        ELSE fl[id])],
                   "OK")

\* deleteFile; storageOk is whether the removal of the object succeeds
DeleteFileOp(st, userId, id, storageOk) ==
    IF id \notin DOMAIN st.files \/ st.files[id].owner # userId
    THEN StoreReply(st, "NotFound")
    ELSE IF ~storageOk THEN StoreReply(st, "ServerError")
    ELSE LET file == st.files[id]
         IN  StoreReply(Store(Without(st.files, {id}),
                              [st.storageUsed EXCEPT ![userId] = @ - file.size],
                              st.bucket \ {file.key}),
                        "OK")

\* ------------------------------------------------- quarantineFile, restoreFile

\* path.basename of a key
Basename(key) == key[2]

\* how a relocation in the bucket can end: done; the copy fails; the copy is
\* made and the removal of the source fails; and, for a restore, the head
\* request fails or its metadata names no original key
QuarantineOutcomes == {"ok", "copyFails", "deleteFails"}
RestoreOutcomes == {"ok", "headFails", "noOriginalKey", "copyFails", "deleteFails"}

\* storageService.quarantineFile(sourceKey): [bucket, ok, key].  An object
\* that is not in the bucket cannot be copied.
StorageQuarantine(bk, sourceKey, outcome) ==
    LET quarantineKey == Key("quarantine", Basename(sourceKey))
    IN  IF sourceKey \notin bk \/ outcome = "copyFails"
        THEN [bucket |-> bk, ok |-> FALSE, key |-> NoKey]
        ELSE IF outcome = "deleteFails"
        THEN [bucket |-> bk \cup {quarantineKey}, ok |-> FALSE, key |-> NoKey]
        ELSE [bucket |-> (bk \ {sourceKey}) \cup {quarantineKey}, ok |-> TRUE,
              key |-> quarantineKey]

\* storageService.restoreFromQuarantine(quarantineKey): [bucket, ok, key]; the
\* original key is the one the quarantine copy was made from
StorageRestore(bk, quarantineKey, outcome) ==
    LET originalKey == Key("uploads", Basename(quarantineKey))
    IN  IF quarantineKey \notin bk \/ outcome \in {"headFails", "noOriginalKey", "copyFails"}
        THEN [bucket |-> bk, ok |-> FALSE, key |-> NoKey]
        ELSE IF outcome = "deleteFails"
        THEN [bucket |-> bk \cup {originalKey}, ok |-> FALSE, key |-> NoKey]
        ELSE [bucket |-> (bk \ {quarantineKey}) \cup {originalKey}, ok |-> TRUE,
              key |-> originalKey]

\* mutant of QuarantineFileOp: the status is saved before the object is
\* relocated
QuarantineFileOpStatusFirst(st, id, outcome, saveOk) ==
    IF id \notin DOMAIN st.files THEN StoreReply(st, "NotFound")
    ELSE IF st.files[id].status = "quarantined" THEN StoreReply(st, "Already")
    ELSE LET file == st.files[id]
             flagged == [st.files EXCEPT ![id].status = "quarantined"]
             moved == StorageQuarantine(st.bucket, file.key, outcome)
         IN  IF ~moved.ok
             THEN StoreReply(Store(flagged, st.storageUsed, moved.bucket), "ServerError")
             ELSE StoreReply(Store([flagged EXCEPT ![id] =
                                       SaveFile(file, [flagged[id] EXCEPT !.key = moved.key])],
                                   st.storageUsed, moved.bucket), "OK")

\* quarantineFile; saveOk is whether the save of the record succeeds
QuarantineFileOp(st, id, outcome, saveOk) ==
    IF id \notin DOMAIN st.files THEN StoreReply(st, "NotFound")
    ELSE IF st.files[id].status = "quarantined" THEN StoreReply(st, "Already")
    ELSE LET file == st.files[id]
             moved == StorageQuarantine(st.bucket, file.key, outcome)
             doc == [file EXCEPT !.status = "quarantined", !.quarantinedAt = TRUE,
                                 !.key = moved.key]
         IN  IF ~moved.ok \/ ~saveOk
             THEN StoreReply(Store(st.files, st.storageUsed, moved.bucket), "ServerError")
             ELSE StoreReply(Store([st.files EXCEPT ![id] = SaveFile(file, doc)],
                                   st.storageUsed, moved.bucket), "OK")

\* restoreFile
RestoreFileOp(st, id, outcome, saveOk) ==
    IF id \notin DOMAIN st.files THEN StoreReply(st, "NotFound")
    ELSE IF st.files[id].status # "quarantined" THEN StoreReply(st, "BadRequest")
    ELSE LET file == st.files[id]
             moved == StorageRestore(st.bucket, file.key, outcome)
             doc == [file EXCEPT !.status = "active", !.restoredAt = TRUE,
                                 !.key = moved.key]
         IN  IF ~moved.ok \/ ~saveOk
             THEN StoreReply(Store(st.files, st.storageUsed, moved.bucket), "ServerError")
             ELSE StoreReply(Store([st.files EXCEPT ![id] = SaveFile(file, doc)],
                                   st.storageUsed, moved.bucket), "OK")

\* ------------------------------------------------------ calculateFolderSize

\* files.reduce((sum, file) => sum + (file.size || 0), 0) over the records ids
RECURSIVE ReduceSizes(_, _)
ReduceSizes(fl, ids) ==
    IF ids = {} THEN 0
    ELSE LET id == CHOOSE i \in ids : TRUE
         IN  ReduceSizes(fl, ids \ {id}) + fl[id].size

\* File.find({ folder: folderId, status: { $ne: 'deleted' } })
FindLiveFiles(fl, folderId) ==
    {x \in DOMAIN fl : fl[x].folder = folderId /\ fl[x].status # "deleted"}

\* Folder.find({ parent: folderId, isTrash: false })
FindLiveSubfolders(fs, folderId) ==
    {c \in DOMAIN fs : fs[c].parent = folderId /\ ~fs[c].isTrash}

\* mutant of calculateFolderSize: the files are matched without the status filter
RECURSIVE calculateFolderSizeAnyStatus(_, _), SubfolderSizesAnyStatus(_, _)
calculateFolderSizeAnyStatus(db, folderId) ==
    ReduceSizes(db.files, {x \in DOMAIN db.files : db.files[x].folder = folderId})
        + SubfolderSizesAnyStatus(db, FindLiveSubfolders(db.folders, folderId))

SubfolderSizesAnyStatus(db, subfolders) ==
    IF subfolders = {} THEN 0
    ELSE LET c == CHOOSE x \in subfolders : TRUE
         IN  calculateFolderSizeAnyStatus(db, c)
                 + SubfolderSizesAnyStatus(db, subfolders \ {c})

\* calculateFolderSize of the folder controller: the $sum of the sizes of the
\* $match-ed files, plus the sizes of the subfolders found
RECURSIVE calculateFolderSize(_, _), SubfolderSizes(_, _)
calculateFolderSize(db, folderId) ==
    LET fileSize == ReduceSizes(db.files, FindLiveFiles(db.files, folderId))
        subfolders == FindLiveSubfolders(db.folders, folderId)
    IN  fileSize + SubfolderSizes(db, subfolders)

SubfolderSizes(db, subfolders) ==
    IF subfolders = {} THEN 0
    ELSE LET c == CHOOSE x \in subfolders : TRUE
         IN  calculateFolderSize(db, c) + SubfolderSizes(db, subfolders \ {c})

\* calculateFolderSize of the admin recalculation.  It also asks for
\* Folder.findByIdAndUpdate(folderId, { size: totalSize }): the Folder schema
\* declares no size path and is strict, so nothing is stored.
RECURSIVE calculateFolderSizeAdmin(_, _), SubfolderSizesAdmin(_, _)
calculateFolderSizeAdmin(db, folderId) ==
    LET files0 == FindLiveFiles(db.files, folderId)
        subfolders == FindLiveSubfolders(db.folders, folderId)
    IN  (0 + ReduceSizes(db.files, files0)) + SubfolderSizesAdmin(db, subfolders)

SubfolderSizesAdmin(db, subfolders) ==
    IF subfolders = {} THEN 0
    ELSE LET c == CHOOSE x \in subfolders : TRUE
         IN  calculateFolderSizeAdmin(db, c)
                 + SubfolderSizesAdmin(db, subfolders \ {c})

\* calculateFolderSize of getFolderStats
RECURSIVE calculateFolderSizeStats(_, _), SubfolderSizesStats(_, _)
calculateFolderSizeStats(db, folderId) ==
    LET files0 == FindLiveFiles(db.files, folderId)
        subfolders == FindLiveSubfolders(db.folders, folderId)
    IN  (0 + ReduceSizes(db.files, files0)) + SubfolderSizesStats(db, subfolders)

SubfolderSizesStats(db, subfolders) ==
    IF subfolders = {} THEN 0
    ELSE LET c == CHOOSE x \in subfolders : TRUE
         IN  calculateFolderSizeStats(db, c)
                 + SubfolderSizesStats(db, subfolders \ {c})

\* ------------------------------------------------------------ getBreadcrumbs

\* an element of the breadcrumbs
Crumb(id, name, path) == [id |-> id, name |-> name, path |-> path]

\* the element added for the root
RootCrumb == Crumb(Null, "Root", <<"/">>)

\* what getBreadcrumbs has after its loop: the breadcrumbs, and whether the
\* loop has ended
Walked(breadcrumbs, ended) == [breadcrumbs |-> breadcrumbs, ended |-> ended]

\* mutant of WalkUp: each folder is added at the end of the breadcrumbs
RECURSIVE WalkUpPush(_, _, _, _)
WalkUpPush(fs, currentId, breadcrumbs, turns) ==
    IF currentId = Null \/ currentId \notin DOMAIN fs THEN Walked(breadcrumbs, TRUE)
    ELSE IF turns = 0 THEN Walked(breadcrumbs, FALSE)
    ELSE LET folder == fs[currentId]
         IN  WalkUpPush(fs, folder.parent,
                        Append(breadcrumbs,
                               Crumb(currentId, folder.name, fullPath(folder))),
                        turns - 1)

\* the while loop of getBreadcrumbs.  A loop that has not ended after as many
\* turns as there are folders is on a cycle of parent references and never
\* ends; turns counts the turns left up to that number.
RECURSIVE WalkUp(_, _, _, _)
WalkUp(fs, currentId, breadcrumbs, turns) ==
    IF currentId = Null \/ currentId \notin DOMAIN fs THEN Walked(breadcrumbs, TRUE)
    ELSE IF turns = 0 THEN Walked(breadcrumbs, FALSE)
    ELSE LET folder == fs[currentId]
         IN  WalkUp(fs, folder.parent,
                    <<Crumb(currentId, folder.name, fullPath(folder))>>
                        \o breadcrumbs,
                    turns - 1)

\* getBreadcrumbs(folderId)
getBreadcrumbs(fs, folderId) ==
    LET w == WalkUp(fs, folderId, <<>>, Cardinality(DOMAIN fs))
    IN  Walked(<<RootCrumb>> \o w.breadcrumbs, w.ended)

\* ------------------------------------------------------------ searchInFolder

\* createFolder with a description and metadata.tags in the body
CreateDescribedFolderOp(fs, userId, name, parent, id, description, tags) ==
    LET r == CreateFolderOp(fs, userId, name, parent, id)
    IN  IF r.status = "Created"
        THEN Reply([r.folders EXCEPT ![id].description = description,
                                     ![id].tags = tags], "Created")
        ELSE r

\* the order of the names under sort({ name }) and under < on strings
Alphabet == <<"A", "B">>

\* a comes before b in the direction of the sort (1 ascending, -1 descending)
Precedes(a, b, sortDirection) ==
    IF sortDirection = 1 THEN IndexOf(Alphabet, a) < IndexOf(Alphabet, b)
    ELSE IndexOf(Alphabet, a) > IndexOf(Alphabet, b)

\* the documents ids of a collection in the order they are stored
RECURSIVE NaturalOrder(_)
NaturalOrder(ids) ==
    IF ids = {} THEN <<>>
    ELSE LET m == CHOOSE x \in ids : \A y \in ids : x <= y
         IN  <<m>> \o NaturalOrder(ids \ {m})

\* x put into the sorted sequence s after the elements that do not come after
\* it: a stable sort by name
RECURSIVE InsertByName(_, _, _)
InsertByName(s, x, sortDirection) ==
    IF s = <<>> THEN <<x>>
    ELSE IF Precedes(x.name, Head(s).name, sortDirection) THEN <<x>> \o s
    ELSE <<Head(s)>> \o InsertByName(Tail(s), x, sortDirection)

RECURSIVE SortByName(_, _)
SortByName(s, sortDirection) ==
    IF s = <<>> THEN <<>>
    ELSE InsertByName(SortByName(SubSeq(s, 1, Len(s) - 1), sortDirection),
                      s[Len(s)], sortDirection)

\* Array.prototype.slice(start, end) and skip(start).limit(end - start)
Slice(s, start, end) ==
    IF start >= Len(s) THEN <<>>
    ELSE SubSeq(s, start + 1, IF end < Len(s) THEN end ELSE Len(s))

\* the $or of the search on one document: name, metadata.tags, description.
\* A regular expression is a name, and matches the text that is that name.
\* inParents is the condition put beside the name at root.
SearchOr(doc, query, inParents) ==
    \/ doc.name = query /\ inParents
    \/ query \in doc.tags
    \/ doc.description = query

\* the kinds of search: folders, files, or both when no type is given
SearchTypes == {"folder", "file", "none"}

\* what searchInFolder answers
SearchReply(status, items, total) ==
    [status |-> status, items |-> items, total |-> total]

\* an element of the results
SearchItem(type, id, name) == [type |-> type, id |-> id, name |-> name]

\* searchInFolder; id is a folder, or null for 'root'.  The File schema has no parent
\* path: with strictQuery the filter drops the condition on it, without it the
\* condition is kept and no file has the path.  It has no metadata.tags
\* either.
searchInFolder(db, userId, id, query, type, sortDirection, page, limit, strictQuery) ==
    IF query = "" THEN SearchReply("BadRequest", <<>>, 0)
    ELSE IF id # Null /\ id \notin DOMAIN db.folders
    THEN SearchReply("NotFound", <<>>, 0)
    ELSE IF id # Null /\ ~MayAccess(db.folders[id], userId, "view")
    THEN SearchReply("Forbidden", <<>>, 0)
    ELSE LET fs == db.folders
             fl == db.files
             accessibleFolders ==
                 {f \in DOMAIN fs :
                     \/ fs[f].owner = userId
                     \/ \E i \in 1..Len(fs[f].sharedWith) :
                            fs[f].sharedWith[i].user = userId}
             folderQuery(f) ==
                 /\ IF id # Null
                    THEN SearchOr(fs[f], query, TRUE) /\ fs[f].parent = id
                    ELSE SearchOr(fs[f], query, fs[f].parent \in accessibleFolders)
                 /\ type = "folder" => ~fs[f].isTrash
             fileDoc(x) == [name |-> fl[x].name, tags |-> {},
                            description |-> fl[x].description]
             fileQuery(x) ==
                 /\ IF id # Null
                    THEN SearchOr(fileDoc(x), query, TRUE) /\ strictQuery
                    ELSE SearchOr(fileDoc(x), query, strictQuery)
                 /\ type = "file" => fl[x].status # "deleted"
             folderFound == {f \in DOMAIN fs : folderQuery(f)}
             fileFound == {x \in DOMAIN fl : fileQuery(x)}
             folderDocs == LET ids == NaturalOrder(folderFound)
                           IN  [i \in 1..Len(ids) |->
                                   SearchItem("folder", ids[i], fs[ids[i]].name)]
             fileDocs == LET ids == NaturalOrder(fileFound)
                         IN  [i \in 1..Len(ids) |->
                                 SearchItem("file", ids[i], fl[ids[i]].name)]
             folderResults == Slice(SortByName(folderDocs, sortDirection),
                                    (page - 1) * limit, page * limit)
             fileResults == Slice(SortByName(fileDocs, sortDirection),
                                  (page - 1) * limit, page * limit)
             results1 == IF type \in {"none", "folder"} THEN folderResults ELSE <<>>
             results2 == IF type \in {"none", "file"} THEN fileResults ELSE <<>>
             results == SortByName(results1 \o results2, sortDirection)
             total == (IF type \in {"none", "folder"} THEN Cardinality(folderFound)
                       ELSE 0)
                      + (IF type \in {"none", "file"} THEN Cardinality(fileFound)
                         ELSE 0)
         IN  SearchReply("OK", Slice(results, (page - 1) * limit, page * limit),
                         total)

\* --------------------------------------------------------------- the requests

NoRequest ==
    [op |-> "none", user |-> "", id |-> Null, parent |-> Null,
     permanent |-> FALSE, status |-> ""]

\* no call made
NoProbe ==
    [doc |-> [owner |-> "", sharedWith |-> <<>>], userId |-> "", required |-> "",
     asked |-> "none", result |-> FALSE]

Init ==
    /\ folders = <<>>
    /\ files = <<>>
    /\ nextFolderId = 1
    /\ nextFileId = 1
    /\ storageUsed = [u \in Accounts |-> 0]
    /\ bucket = {}
    /\ last = NoRequest
    /\ nops = 0
    /\ budget = MaxOps
    /\ probe = NoProbe
    /\ procs = <<>>

\* everything that is stored: the collections and the bucket
Database == <<folders, files, storageUsed, bucket>>

\* the bookkeeping of a request: one that changes the database is counted and
\* kept as the last one; one that changes nothing leaves no trace
Record(req) ==
    /\ last' = IF Database' # Database THEN req ELSE last
    /\ nops' = IF Database' # Database THEN nops + 1 ELSE nops
    /\ budget' = budget
    /\ probe' = probe
    /\ procs' = procs

CreateFolder(u, name, parent) ==
    /\ nops < budget
    /\ nextFolderId <= MaxFolders
    /\ LET r == CreateFolderOp(folders, u, name, parent, nextFolderId)
       IN  /\ folders' = r.folders
           /\ nextFolderId' = IF r.status = "Created" THEN nextFolderId + 1
                              ELSE nextFolderId
           /\ UNCHANGED <<files, nextFileId, storageUsed, bucket>>
           /\ Record([NoRequest EXCEPT !.op = "createFolder", !.user = u,
                  !.id = IF r.status = "Created" THEN nextFolderId ELSE Null,
                  !.parent = parent, !.status = r.status])

CreateDescribedFolder(u, name, parent, description, tags) ==
    /\ nops < budget
    /\ nextFolderId <= MaxFolders
    /\ LET r == CreateDescribedFolderOp(folders, u, name, parent, nextFolderId,
                                        description, tags)
       IN  /\ folders' = r.folders
           /\ nextFolderId' = IF r.status = "Created" THEN nextFolderId + 1
                              ELSE nextFolderId
           /\ UNCHANGED <<files, nextFileId, storageUsed, bucket>>
           /\ Record([NoRequest EXCEPT !.op = "createFolder", !.user = u,
                  !.id = IF r.status = "Created" THEN nextFolderId ELSE Null,
                  !.parent = parent, !.status = r.status])

UpdateFolder(u, id, name) ==
    /\ nops < budget
    /\ LET r == UpdateFolderOp(folders, u, id, name)
       IN  /\ folders' = r.folders
           /\ UNCHANGED <<files, nextFolderId, nextFileId, storageUsed, bucket>>
           /\ Record([NoRequest EXCEPT !.op = "updateFolder", !.user = u,
                  !.id = id, !.status = r.status])

MoveFolder(u, id, parentId) ==
    /\ nops < budget
    /\ LET r == MoveFolderOp(folders, u, id, parentId)
       IN  /\ folders' = r.folders
           /\ UNCHANGED <<files, nextFolderId, nextFileId, storageUsed, bucket>>
           /\ Record([NoRequest EXCEPT !.op = "moveFolder", !.user = u,
                  !.id = id, !.parent = parentId, !.status = r.status])

DeleteFolder(u, id, permanent) ==
    /\ nops < budget
    /\ LET r == DeleteFolderOp(Db(folders, files), u, id, permanent)
       IN  /\ folders' = r.folders
           /\ files' = r.files
           /\ UNCHANGED <<nextFolderId, nextFileId, storageUsed, bucket>>
           /\ Record([NoRequest EXCEPT !.op = "deleteFolder", !.user = u,
                  !.id = id, !.permanent = permanent, !.status = r.status])

ShareFolder(u, id, userId, permission, message) ==
    /\ nops < budget
    /\ LET r == ShareFolderOp(folders, u, id, userId, permission, message)
       IN  /\ folders' = r.folders
           /\ UNCHANGED <<files, nextFolderId, nextFileId, storageUsed, bucket>>
           /\ Record([NoRequest EXCEPT !.op = "shareFolder", !.user = u,
                  !.id = id, !.status = r.status])

UnshareFolder(u, id, userId) ==
    /\ nops < budget
    /\ LET r == UnshareFolderOp(folders, u, id, userId)
       IN  /\ folders' = r.folders
           /\ UNCHANGED <<files, nextFolderId, nextFileId, storageUsed, bucket>>
           /\ Record([NoRequest EXCEPT !.op = "unshareFolder", !.user = u,
                  !.id = id, !.status = r.status])

ShareFile(u, id, userId, permission, message) ==
    /\ nops < budget
    /\ LET r == ShareFileOp(files, u, id, userId, permission, message)
       IN  /\ files' = r.files
           /\ UNCHANGED <<folders, nextFolderId, nextFileId, storageUsed, bucket>>
           /\ Record([NoRequest EXCEPT !.op = "shareFile", !.user = u,
                  !.id = id, !.status = r.status])

UnshareFile(u, id, userId) ==
    /\ nops < budget
    /\ LET r == UnshareFileOp(files, u, id, userId)
       IN  /\ files' = r.files
           /\ UNCHANGED <<folders, nextFolderId, nextFileId, storageUsed, bucket>>
           /\ Record([NoRequest EXCEPT !.op = "unshareFile", !.user = u,
                  !.id = id, !.status = r.status])

QuarantineFile(u, id, outcome, saveOk) ==
    /\ nops < budget
    /\ LET r == QuarantineFileOp(Store(files, storageUsed, bucket), id, outcome, saveOk)
       IN  /\ files' = r.files
           /\ bucket' = r.bucket
           /\ UNCHANGED <<folders, nextFolderId, nextFileId, storageUsed>>
           /\ Record([NoRequest EXCEPT !.op = "quarantineFile", !.user = u,
                  !.id = id, !.status = r.status])

RestoreFile(u, id, outcome, saveOk) ==
    /\ nops < budget
    /\ LET r == RestoreFileOp(Store(files, storageUsed, bucket), id, outcome, saveOk)
       IN  /\ files' = r.files
           /\ bucket' = r.bucket
           /\ UNCHANGED <<folders, nextFolderId, nextFileId, storageUsed>>
           /\ Record([NoRequest EXCEPT !.op = "restoreFile", !.user = u,
                  !.id = id, !.status = r.status])

DownloadFile(u, id, urlOk) ==
    /\ nops < budget
    /\ LET r == DownloadFileOp(files, u, id, urlOk)
       IN  /\ files' = r.files
           /\ UNCHANGED <<folders, nextFolderId, nextFileId, storageUsed, bucket>>
           /\ Record([NoRequest EXCEPT !.op = "downloadFile", !.user = u,
                  !.id = id, !.status = r.status])

UpdateFile(u, id, name) ==
    /\ nops < budget
    /\ LET r == UpdateFileOp(files, u, id, name)
       IN  /\ files' = r.files
           /\ UNCHANGED <<folders, nextFolderId, nextFileId, storageUsed, bucket>>
           /\ Record([NoRequest EXCEPT !.op = "updateFile", !.user = u,
                  !.id = id, !.status = r.status])

DeleteFile(u, id, storageOk) ==
    /\ nops < budget
    /\ LET r == DeleteFileOp(Store(files, storageUsed, bucket), u, id, storageOk)
       IN  /\ files' = r.files
           /\ storageUsed' = r.storageUsed
           /\ bucket' = r.bucket
           /\ UNCHANGED <<folders, nextFolderId, nextFileId>>
           /\ Record([NoRequest EXCEPT !.op = "deleteFile", !.user = u,
                  !.id = id, !.status = r.status])

UploadFile(u, folderId, size, verdict, fault) ==
    /\ nops < budget
    /\ nextFileId <= MaxFiles
    /\ LET r == UploadFileOp(Store(files, storageUsed, bucket), u, folderId, size,
                             verdict, fault, nextFileId)
       IN  /\ files' = r.files
           /\ storageUsed' = r.storageUsed
           /\ bucket' = r.bucket
           /\ nextFileId' = IF r.status \in {"Created", "ServerError"}
                            THEN nextFileId + 1 ELSE nextFileId
           /\ UNCHANGED <<folders, nextFolderId>>
           /\ Record([NoRequest EXCEPT !.op = "uploadFile", !.user = u,
                  !.id = IF r.status = "Created" THEN nextFileId ELSE Null,
                  !.parent = folderId, !.status = r.status])

Next ==
    \/ \E u \in Users, name \in NameInputs, parent \in {Null} \cup FolderIds :
           CreateFolder(u, name, parent)
    \/ \E u \in Users, id \in FolderIds, name \in NameInputs :
           UpdateFolder(u, id, name)
    \/ \E u \in Users, id \in FolderIds, parentId \in {Null} \cup FolderIds :
           MoveFolder(u, id, parentId)
    \/ \E u \in Users, id \in FolderIds, permanent \in BOOLEAN :
           DeleteFolder(u, id, permanent)
    \/ \E u \in Users, id \in FolderIds, userId \in Users,
            permission \in PermissionInputs :
           ShareFolder(u, id, userId, permission, "")
    \/ \E u \in Users, id \in FolderIds, userId \in Users :
           UnshareFolder(u, id, userId)
    \/ \E u \in Users, folderId \in {Null} \cup FolderIds, verdict \in Verdicts :
           UploadFile(u, folderId, MaxFileSize, verdict, "none")

Spec == Init /\ [][Next]_vars

\* ------------------------------------------------- the move-to-root scenario

ScenarioNames == {"A", "B", "C"}

\* create a folder at root
ScenarioCreateA ==
    /\ nextFolderId = 1
    /\ \E u \in Users, name \in ScenarioNames : CreateFolder(u, name, Null)

\* create a folder under the first
ScenarioCreateB ==
    /\ nextFolderId = 2
    /\ \E u \in Users, name \in ScenarioNames : CreateFolder(u, name, 1)

\* give the second folder a child
ScenarioCreateC ==
    /\ nextFolderId = 3
    /\ \E u \in Users, name \in ScenarioNames : CreateFolder(u, name, 2)

\* move the second folder to root, once
ScenarioMoveB ==
    /\ nextFolderId = 4
    /\ last.op = "createFolder"
    /\ \E u \in Users : MoveFolder(u, 2, Null)

ScenarioNext ==
    \/ ScenarioCreateA
    \/ ScenarioCreateB
    \/ ScenarioCreateC
    \/ ScenarioMoveB

SpecScenario == Init /\ [][ScenarioNext]_vars

\* ------------------------------------------- runs of creates, moves, deletes

InitCounts ==
    /\ folders = <<>>
    /\ files = <<>>
    /\ nextFolderId = 1
    /\ nextFileId = 1
    /\ storageUsed = [u \in Accounts |-> 0]
    /\ bucket = {}
    /\ last = NoRequest
    /\ nops = 0
    /\ budget = MaxCountOps
    /\ probe = NoProbe
    /\ procs = <<>>

CountsNext ==
    \/ \E u \in Users, name \in NameInputs, parent \in {Null} \cup FolderIds :
           CreateFolder(u, name, parent)
    \/ \E u \in Users, id \in FolderIds, parentId \in {Null} \cup FolderIds :
           MoveFolder(u, id, parentId)
    \/ \E u \in Users, id \in FolderIds, permanent \in BOOLEAN :
           DeleteFolder(u, id, permanent)

SpecCounts == InitCounts /\ [][CountsNext]_vars

\* ------------------------------------------------ runs of one owner's tree

\* u1 builds, renames, moves, deletes and shares a tree (with u2) and
\* uploads; every request of every account is asked of the handlers in each
\* state
ValidationNext ==
    \/ \E name \in NameInputs, parent \in {Null} \cup FolderIds :
           CreateFolder("u1", name, parent)
    \/ \E id \in FolderIds, name \in NameInputs : UpdateFolder("u1", id, name)
    \/ \E id \in FolderIds, parentId \in {Null} \cup FolderIds :
           MoveFolder("u1", id, parentId)
    \/ \E id \in FolderIds, permanent \in BOOLEAN : DeleteFolder("u1", id, permanent)
    \/ \E id \in FolderIds, permission \in PermissionInputs :
           ShareFolder("u1", id, "u2", permission, "")
    \/ \E folderId \in {Null} \cup FolderIds :
           UploadFile("u1", folderId, MaxFileSize, "benign", "none")

SpecValidation == Init /\ [][ValidationNext]_vars

\* --------------------------------------------- uploadFile, one await at a time

\* the concurrent uploadFile requests
UploadRequests == {1, 2}

\* a request that has not arrived
IdleUpload ==
    [pc |-> "idle", user |-> "", size |-> 0, verdict |-> "", id |-> Null, read |-> 0]

InitUploads ==
    /\ folders = <<>>
    /\ files = <<>>
    /\ nextFolderId = 1
    /\ nextFileId = 1
    /\ storageUsed = [u \in Accounts |-> 0]
    /\ bucket = {}
    /\ last = NoRequest
    /\ nops = 0
    /\ budget = MaxOps
    /\ probe = NoProbe
    /\ procs = [p \in UploadRequests |-> IdleUpload]

\* the size check, the assessment and User.findById: the request holds the
\* user document it read.  A request that is refused here leaves no trace.
UploadLookup(p, u, size, verdict) ==
    /\ procs[p].pc = "idle"
    /\ size <= MaxFileSize
    /\ verdict # "blocked"
    /\ procs' = [procs EXCEPT ![p] = [pc |-> "lookedUp", user |-> u, size |-> size,
                                      verdict |-> verdict, id |-> Null,
                                      read |-> storageUsed[u]]]
    /\ UNCHANGED <<folders, files, nextFolderId, nextFileId, storageUsed, bucket,
                   last, nops, budget, probe>>

\* the quota check on the document read, new File and the first save
UploadSaveRecord(p) ==
    /\ procs[p].pc = "lookedUp"
    /\ IF procs[p].read + procs[p].size > StorageQuota
       THEN /\ procs' = [procs EXCEPT ![p].pc = "refused"]
            /\ UNCHANGED <<files, nextFileId>>
       ELSE /\ nextFileId <= MaxFiles
            /\ files' = (nextFileId :>
                            [NewFile(Null, procs[p].user) EXCEPT
                                !.size = procs[p].size,
                                !.status = IF procs[p].verdict = "error"
                                           THEN "quarantined" ELSE "active"])
                         @@ files
            /\ nextFileId' = nextFileId + 1
            /\ procs' = [procs EXCEPT ![p].pc = "saved", ![p].id = nextFileId]
    /\ UNCHANGED <<folders, nextFolderId, storageUsed, bucket, last, nops, budget, probe>>

\* the catch of the steps after the first save: File.findByIdAndDelete
UploadCleanup(p) ==
    /\ files' = Without(files, {procs[p].id})
    /\ procs' = [procs EXCEPT ![p].pc = "failed"]

\* storageService.uploadFile
UploadStore(p, ok) ==
    /\ procs[p].pc = "saved"
    /\ IF ok
       THEN /\ bucket' = bucket \cup {Key("uploads", procs[p].id)}
            /\ procs' = [procs EXCEPT ![p].pc = "stored"]
            /\ UNCHANGED files
       ELSE /\ UploadCleanup(p)
            /\ UNCHANGED bucket
    /\ UNCHANGED <<folders, nextFolderId, nextFileId, storageUsed, last, nops, budget, probe>>

\* the locator and status 'active' are assigned and the record saved
UploadSaveLocator(p, ok) ==
    /\ procs[p].pc = "stored"
    /\ IF ok
       THEN LET id == procs[p].id
            IN  /\ files' = [files EXCEPT ![id] =
                                SaveFile(files[id], [files[id] EXCEPT
                                                        !.key = Key("uploads", id),
                                                        !.status = "active"])]
                /\ procs' = [procs EXCEPT ![p].pc = "located"]
       ELSE UploadCleanup(p)
    /\ UNCHANGED <<folders, nextFolderId, nextFileId, storageUsed, bucket,
                   last, nops, budget, probe>>

\* user.storageUsed += size; user.save(): the sum is made on the document the
\* request read, and the save writes it
UploadSaveUsage(p, ok) ==
    /\ procs[p].pc = "located"
    /\ IF ok
       THEN /\ storageUsed' = [storageUsed EXCEPT
                                  ![procs[p].user] = procs[p].read + procs[p].size]
            /\ procs' = [procs EXCEPT ![p].pc = "counted"]
            /\ UNCHANGED files
       ELSE /\ UploadCleanup(p)
            /\ UNCHANGED storageUsed
    /\ UNCHANGED <<folders, nextFolderId, nextFileId, bucket, last, nops, budget, probe>>

\* fileScanQueue.add, and the 201
UploadEnqueue(p, ok) ==
    /\ procs[p].pc = "counted"
    /\ IF ok
       THEN /\ procs' = [procs EXCEPT ![p].pc = "created"]
            /\ UNCHANGED files
       ELSE UploadCleanup(p)
    /\ UNCHANGED <<folders, nextFolderId, nextFileId, storageUsed, bucket,
                   last, nops, budget, probe>>

UploadsNext ==
    \E p \in UploadRequests :
        \/ \E u \in Users, size \in SizeInputs, verdict \in Verdicts :
               UploadLookup(p, u, size, verdict)
        \/ UploadSaveRecord(p)
        \/ \E ok \in BOOLEAN : UploadStore(p, ok)
        \/ \E ok \in BOOLEAN : UploadSaveLocator(p, ok)
        \/ \E ok \in BOOLEAN : UploadSaveUsage(p, ok)
        \/ \E ok \in BOOLEAN : UploadEnqueue(p, ok)

SpecUploads == InitUploads /\ [][UploadsNext]_vars

\* ----------------------------- createFolder, one await at a time: two requests

CreateRequests == {1, 2}

\* a request that has not arrived
IdleCreate ==
    [pc |-> "idle", user |-> "", name |-> "", parent |-> Null, read |-> 0,
     path |-> <<"/">>, id |-> Null, status |-> ""]

InitCreates ==
    /\ folders = <<>>
    /\ files = <<>>
    /\ nextFolderId = 1
    /\ nextFileId = 1
    /\ storageUsed = [u \in Accounts |-> 0]
    /\ bucket = {}
    /\ last = NoRequest
    /\ nops = 0
    /\ budget = MaxOps
    /\ probe = NoProbe
    /\ procs = [p \in CreateRequests |-> IdleCreate]

\* the answer of a request
CreateAnswer(p, status) ==
    procs' = [procs EXCEPT ![p].pc = "done", ![p].status = status]

\* the validation of the name and Folder.findOne for a live folder of the
\* same name, parent and owner; a request that was answered may be followed
\* by another, while there are ids left
CreateFind(p, u, name, parent) ==
    /\ procs[p].pc \in {"idle", "done"}
    /\ nextFolderId <= MaxFolders
    /\ procs' = [procs EXCEPT ![p] =
           [IdleCreate EXCEPT
               !.user = u, !.name = name, !.parent = parent,
               !.pc = IF name = "" \/ ExistingFolder(folders, name, parent, u, Null)
                      THEN "done" ELSE "checked",
               !.status = IF name = "" THEN "BadRequest"
                          ELSE IF ExistingFolder(folders, name, parent, u, Null)
                          THEN "NameConflict" ELSE ""]]
    /\ UNCHANGED <<folders, files, nextFolderId, nextFileId, storageUsed, bucket,
                   last, nops, budget, probe>>

\* Folder.findById(parent) and the permission test: the request holds the
\* parent document it read
CreateLoadParent(p) ==
    /\ procs[p].pc = "checked"
    /\ LET parent == procs[p].parent
       IN  IF parent = Null THEN procs' = [procs EXCEPT ![p].pc = "ready"]
           ELSE IF parent \notin DOMAIN folders THEN CreateAnswer(p, "NotFound")
           ELSE IF ~MayAccess(folders[parent], procs[p].user, "edit")
           THEN CreateAnswer(p, "Forbidden")
           ELSE procs' = [procs EXCEPT
                    ![p].pc = "loaded",
                    ![p].read = folders[parent].folderCount,
                    ![p].path = folders[parent].path \o <<folders[parent].name, "/">>]
    /\ UNCHANGED <<folders, files, nextFolderId, nextFileId, storageUsed, bucket,
                   last, nops, budget, probe>>

\* parentFolder.folderCount += 1; parentFolder.save(): the sum is made on the
\* document the request read, and the save writes the modified path
CreateSaveParent(p) ==
    /\ procs[p].pc = "loaded"
    /\ folders' = [folders EXCEPT ![procs[p].parent].folderCount = procs[p].read + 1]
    /\ procs' = [procs EXCEPT ![p].pc = "ready"]
    /\ UNCHANGED <<files, nextFolderId, nextFileId, storageUsed, bucket,
                   last, nops, budget, probe>>

\* folder.save() and the 201
CreateSave(p) ==
    /\ procs[p].pc = "ready"
    /\ nextFolderId <= MaxFolders
    /\ folders' = PreSaveNew(folders, nextFolderId,
                      [NewFolder(procs[p].name, procs[p].parent, procs[p].user)
                          EXCEPT !.path = procs[p].path])
    /\ nextFolderId' = nextFolderId + 1
    /\ procs' = [procs EXCEPT ![p].pc = "done", ![p].status = "Created",
                              ![p].id = nextFolderId]
    /\ UNCHANGED <<files, nextFileId, storageUsed, bucket, last, nops, budget, probe>>

CreatesNext ==
    \E p \in CreateRequests :
        \/ \E name \in NameInputs, parent \in {Null} \cup FolderIds :
               CreateFind(p, "u1", name, parent)
        \/ CreateLoadParent(p)
        \/ CreateSaveParent(p)
        \/ CreateSave(p)

SpecCreates == InitCreates /\ [][CreatesNext]_vars

\* ------------------------------- deleteFile, one await at a time: two requests

DeleteRequests == {1, 2}

\* a request that has not arrived
IdleDelete ==
    [pc |-> "idle", user |-> "", id |-> Null, size |-> 0, key |-> NoKey,
     status |-> ""]

InitDeletes ==
    /\ folders = <<>>
    /\ files = <<>>
    /\ nextFolderId = 1
    /\ nextFileId = 1
    /\ storageUsed = [u \in Accounts |-> 0]
    /\ bucket = {}
    /\ last = NoRequest
    /\ nops = 0
    /\ budget = MaxOps
    /\ probe = NoProbe
    /\ procs = [p \in DeleteRequests |-> IdleDelete]

\* File.findOne({ _id: id, owner: userId }): the request holds the document
\* it read
DeleteFind(p, u, id) ==
    /\ procs[p].pc = "idle"
    /\ procs' = [procs EXCEPT ![p] =
           IF id \in DOMAIN files /\ files[id].owner = u
           THEN [pc |-> "found", user |-> u, id |-> id, size |-> files[id].size,
                 key |-> files[id].key, status |-> ""]
           ELSE [IdleDelete EXCEPT !.pc = "done", !.user = u, !.id = id,
                                   !.status = "NotFound"]]
    /\ UNCHANGED <<folders, files, nextFolderId, nextFileId, storageUsed, bucket,
                   last, nops, budget, probe>>

\* storageService.deleteFile(file.storage.key): deleting a key that is not in
\* the bucket succeeds; ok is whether the call succeeds
DeleteObject(p, ok) ==
    /\ procs[p].pc = "found"
    /\ IF ok
       THEN /\ bucket' = bucket \ {procs[p].key}
            /\ procs' = [procs EXCEPT ![p].pc = "removed"]
       ELSE /\ procs' = [procs EXCEPT ![p].pc = "done", ![p].status = "ServerError"]
            /\ UNCHANGED bucket
    /\ UNCHANGED <<folders, files, nextFolderId, nextFileId, storageUsed,
                   last, nops, budget, probe>>

\* User.findByIdAndUpdate(userId, { $inc: { storageUsed: -file.size } })
DeleteDecrement(p) ==
    /\ procs[p].pc = "removed"
    /\ storageUsed' = [storageUsed EXCEPT ![procs[p].user] = @ - procs[p].size]
    /\ procs' = [procs EXCEPT ![p].pc = "decremented"]
    /\ UNCHANGED <<folders, files, nextFolderId, nextFileId, bucket,
                   last, nops, budget, probe>>

\* File.findByIdAndDelete(id) and the 200
DeleteRecord(p) ==
    /\ procs[p].pc = "decremented"
    /\ files' = Without(files, {procs[p].id})
    /\ procs' = [procs EXCEPT ![p].pc = "done", ![p].status = "OK"]
    /\ UNCHANGED <<folders, nextFolderId, nextFileId, storageUsed, bucket,
                   last, nops, budget, probe>>

\* uploads while no delete is in progress, then the deletes
DeletesNext ==
    \/ /\ \A p \in DeleteRequests : procs[p].pc = "idle"
       /\ \E u \in Users, size \in 1..MaxFileSize :
              UploadFile(u, Null, size, "benign", "none")
    \/ \E p \in DeleteRequests :
           \/ \E u \in Users, id \in FileIds : DeleteFind(p, u, id)
           \/ \E ok \in BOOLEAN : DeleteObject(p, ok)
           \/ DeleteDecrement(p)
           \/ DeleteRecord(p)

SpecDeletes == InitDeletes /\ [][DeletesNext]_vars

\* --------------------------------------------- moveFolder, one await at a time

\* the concurrent moveFolder requests
MoveRequests == {1, 2}

\* a request that has not arrived; folder and newParent are the documents
\* the request has loaded, overlap is whether the other request was in
\* progress when this one arrived
IdleMove ==
    [pc |-> "idle", user |-> "", id |-> Null, parentId |-> Null, folder |-> Null,
     newParent |-> Null, status |-> "", overlap |-> FALSE]

InitMoves ==
    /\ folders = <<>>
    /\ files = <<>>
    /\ nextFolderId = 1
    /\ nextFileId = 1
    /\ storageUsed = [u \in Accounts |-> 0]
    /\ bucket = {}
    /\ last = NoRequest
    /\ nops = 0
    /\ budget = MaxFolders
    /\ probe = NoProbe
    /\ procs = [p \in MoveRequests |-> IdleMove]

MoveAnswer(p, status) == [procs EXCEPT ![p].pc = "done", ![p].status = status]

\* mutant of SaveLoaded: the hook does not throw for a modified parent; the
\* path is written and the save succeeds
SaveLoadedNoThrow(fs, id, loaded, doc) ==
    [folders |-> [fs EXCEPT ![id].path = doc.path], ok |-> TRUE]

\* folder.save() of a document loaded earlier: isModified('parent') compares
\* with the document as it was loaded; when the parent is modified the hook
\* throws (see PreSaveExisting); else the modified path is written
SaveLoaded(fs, id, loaded, doc) ==
    IF doc.parent # loaded.parent THEN [folders |-> fs, ok |-> FALSE]
    ELSE [folders |-> [fs EXCEPT ![id].path = doc.path], ok |-> TRUE]

\* Folder.findById(id) and the permission check
MoveLoad(p, u, id, parentId) ==
    /\ procs[p].pc = "idle"
    /\ LET status == IF id \notin DOMAIN folders THEN "NotFound"
                     ELSE IF ~MayAccess(folders[id], u, "edit") THEN "Forbidden"
                     ELSE ""
           arrived == [procs[p] EXCEPT
                          !.user = u, !.id = id, !.parentId = parentId,
                          !.overlap = \E q \in MoveRequests \ {p} :
                                         procs[q].pc \notin {"idle", "done"}]
       IN  procs' = [procs EXCEPT ![p] =
                        IF status # ""
                        THEN [arrived EXCEPT !.pc = "done", !.status = status]
                        ELSE [arrived EXCEPT !.pc = "loaded", !.folder = folders[id]]]
    /\ UNCHANGED <<folders, files, nextFolderId, nextFileId, storageUsed, bucket,
                   last, nops, budget, probe>>

\* for a destination: Folder.findById(parentId), its permission check, the
\* self and descendant checks and the name check, all reads
MoveCheck(p) ==
    /\ procs[p].pc = "loaded"
    /\ LET u == procs[p].user
           id == procs[p].id
           parentId == procs[p].parentId
           folder == procs[p].folder
           status ==
               IF parentId = Null THEN ""
               ELSE IF parentId \notin DOMAIN folders THEN "NotFound"
               ELSE IF ~MayAccess(folders[parentId], u, "edit") THEN "Forbidden"
               ELSE IF id = parentId THEN "Circular"
               ELSE IF isDescendantFolder(folders, id, parentId) THEN "Circular"
               ELSE IF ExistingFolder(folders, folder.name, parentId, folder.owner, id)
               THEN "NameConflict"
               ELSE ""
       IN  procs' = IF status # "" THEN MoveAnswer(p, status)
                    ELSE [procs EXCEPT ![p].pc = "checked",
                                       ![p].newParent = IF parentId = Null THEN Null
                                                        ELSE folders[parentId]]
    /\ UNCHANGED <<folders, files, nextFolderId, nextFileId, storageUsed, bucket,
                   last, nops, budget, probe>>

\* the $inc of the old parent's folderCount and of the new parent's
MoveCount(p) ==
    /\ procs[p].pc = "checked"
    /\ LET parentId == procs[p].parentId
           old == procs[p].folder.parent
           fs1 == IF old # Null /\ old # parentId
                  THEN IncFolderCount(folders, old, -1) ELSE folders
       IN  folders' = IF parentId # Null /\ (old = Null \/ old # parentId)
                      THEN IncFolderCount(fs1, parentId, 1) ELSE fs1
    /\ procs' = [procs EXCEPT ![p].pc = "counted"]
    /\ UNCHANGED <<files, nextFolderId, nextFileId, storageUsed, bucket,
                   last, nops, budget, probe>>

\* folder.parent and folder.path are assigned and the document saved
MoveSave(p) ==
    /\ procs[p].pc = "counted"
    /\ procs[p].id \in DOMAIN folders
    /\ LET parentId == procs[p].parentId
           newParent == procs[p].newParent
           newPath == IF parentId = Null THEN <<"/">>
                      ELSE newParent.path \o <<newParent.name, "/">>
           saved == SaveLoaded(folders, procs[p].id, procs[p].folder,
                               [procs[p].folder EXCEPT !.parent = parentId,
                                                       !.path = newPath])
       IN  /\ folders' = saved.folders
           /\ procs' = IF saved.ok
                        THEN [procs EXCEPT ![p].pc = "saved", ![p].folder.path = newPath]
                        ELSE MoveAnswer(p, "ServerError")
    /\ UNCHANGED <<files, nextFolderId, nextFileId, storageUsed, bucket,
                   last, nops, budget, probe>>

\* the controller's updateDescendantPaths, and the answer
MoveUpdatePaths(p) ==
    /\ procs[p].pc = "saved"
    /\ folders' = updateDescendantPaths(folders, procs[p].id, procs[p].folder.path)
    /\ procs' = MoveAnswer(p, "OK")
    /\ UNCHANGED <<files, nextFolderId, nextFileId, storageUsed, bucket,
                   last, nops, budget, probe>>

\* u1 builds a tree; then two of its moveFolder requests run, their awaits
\* interleaved
MovesNext ==
    \/ /\ \A p \in MoveRequests : procs[p].pc = "idle"
       /\ \E name \in Names, parent \in {Null} \cup FolderIds :
              CreateFolder("u1", name, parent)
    \/ \E p \in MoveRequests :
           \/ \E id \in FolderIds, parentId \in {Null} \cup FolderIds :
                  MoveLoad(p, "u1", id, parentId)
           \/ MoveCheck(p)
           \/ MoveCount(p)
           \/ MoveSave(p)
           \/ MoveUpdatePaths(p)

SpecMoves == InitMoves /\ [][MovesNext]_vars

\* ------------------------------------------------- uploads and their assessment

\* one upload, for every backend and every reply to its assessment call
InitRisk ==
    /\ folders = <<>>
    /\ files = <<>>
    /\ nextFolderId = 1
    /\ nextFileId = 1
    /\ storageUsed = [u \in Accounts |-> 0]
    /\ bucket = {}
    /\ last = NoRequest
    /\ nops = 0
    /\ budget = MaxOps
    /\ procs = <<>>
    /\ \E backend \in Backends, reply \in Replies :
           probe = [backend |-> backend, reply |-> reply]

RiskUpload ==
    /\ nextFileId = 1
    /\ \E u \in Users :
           UploadFile(u, Null, 1, VerdictOf(probe.backend, probe.reply), "none")

RiskNext == RiskUpload

SpecRisk == InitRisk /\ [][RiskNext]_vars

\* ------------------------------------------------ runs of a file's versions

\* uploads, renames, downloads, quarantines and restores
VersionsNext ==
    \/ \E u \in Users : UploadFile(u, Null, 1, "benign", "none")
    \/ \E u \in Users, id \in FileIds, name \in NameInputs : UpdateFile(u, id, name)
    \/ \E u \in Users, id \in FileIds, urlOk \in BOOLEAN : DownloadFile(u, id, urlOk)
    \/ \E u \in {a \in Accounts : Role[a] = "admin"}, id \in FileIds,
            outcome \in QuarantineOutcomes, saveOk \in BOOLEAN :
           QuarantineFile(u, id, outcome, saveOk)
    \/ \E u \in {a \in Accounts : Role[a] = "admin"}, id \in FileIds,
            outcome \in RestoreOutcomes, saveOk \in BOOLEAN :
           RestoreFile(u, id, outcome, saveOk)

SpecVersions == Init /\ [][VersionsNext]_vars

\* ------------------------------------------------- runs of the storage usage

\* uploads at root and into folders, deleteFile, permanent deleteFolder
UsageNext ==
    \/ \E u \in Users, name \in Names : CreateFolder(u, name, Null)
    \/ \E u \in Users, folderId \in {Null} \cup FolderIds, size \in 1..MaxFileSize :
           UploadFile(u, folderId, size, "benign", "none")
    \/ \E u \in Users, id \in FileIds, storageOk \in BOOLEAN :
           DeleteFile(u, id, storageOk)
    \/ \E u \in Users, id \in FolderIds : DeleteFolder(u, id, TRUE)

SpecUsage == Init /\ [][UsageNext]_vars

\* ------------------------------------------------- runs of the folder sizes

\* u1 builds a tree, uploads into it and deletes folders, to trash or for good
SizesNext ==
    \/ \E name \in Names, parent \in {Null} \cup FolderIds :
           CreateFolder("u1", name, parent)
    \/ \E folderId \in {Null} \cup FolderIds, size \in 1..MaxFileSize :
           UploadFile("u1", folderId, size, "benign", "none")
    \/ \E id \in FolderIds, permanent \in BOOLEAN : DeleteFolder("u1", id, permanent)

SpecSizes == InitCounts /\ [][SizesNext]_vars

\* ------------------------------------------------------ runs of the search

\* the descriptions and the tags a folder is created with
Descriptions == {"", "B"}
TagInputs == {{}, {"B"}}

\* u1 creates folders with descriptions and tags, shares them with u2,
\* uploads and deletes folders to the trash; both accounts search
SearchNext ==
    \/ \E name \in Names, parent \in {Null} \cup FolderIds,
            description \in Descriptions, tags \in TagInputs :
           CreateDescribedFolder("u1", name, parent, description, tags)
    \/ \E id \in FolderIds : ShareFolder("u1", id, "u2", "view", "")
    \/ \E folderId \in {Null} \cup FolderIds :
           UploadFile("u1", folderId, 1, "benign", "none")
    \/ \E id \in FolderIds : DeleteFolder("u1", id, FALSE)

SpecSearch == Init /\ [][SearchNext]_vars

\* ------------------------------------------------- runs of the file lifecycle

\* uploads into folders and at root, trash and permanent deletes of folders,
\* quarantines and restores by an administrator, with every outcome of the
\* storage and of the save
FilesNext ==
    \/ \E u \in Users, name \in Names : CreateFolder(u, name, Null)
    \/ \E u \in Users, folderId \in {Null} \cup FolderIds, verdict \in Verdicts :
           UploadFile(u, folderId, 1, verdict, "none")
    \/ \E u \in Users, id \in FolderIds, permanent \in BOOLEAN :
           DeleteFolder(u, id, permanent)
    \/ \E u \in {a \in Accounts : Role[a] = "admin"}, id \in FileIds,
            outcome \in QuarantineOutcomes, saveOk \in BOOLEAN :
           QuarantineFile(u, id, outcome, saveOk)
    \/ \E u \in {a \in Accounts : Role[a] = "admin"}, id \in FileIds,
            outcome \in RestoreOutcomes, saveOk \in BOOLEAN :
           RestoreFile(u, id, outcome, saveOk)

SpecFiles == Init /\ [][FilesNext]_vars

\* --------------------------------------------------------- runs of sharing

\* folders and files at root, shared and unshared among all accounts
ShareNext ==
    \/ \E u \in Accounts, name \in Names : CreateFolder(u, name, Null)
    \/ \E u \in Accounts : UploadFile(u, Null, 1, "benign", "none")
    \/ \E u \in Accounts, id \in FolderIds, userId \in Accounts,
            permission \in PermissionInputs, message \in MessageInputs :
           ShareFolder(u, id, userId, permission, message)
    \/ \E u \in Accounts, id \in FolderIds, userId \in Accounts :
           UnshareFolder(u, id, userId)
    \/ \E u \in Accounts, id \in FileIds, userId \in Accounts,
            permission \in PermissionInputs \cup {""}, message \in MessageInputs :
           ShareFile(u, id, userId, permission, message)
    \/ \E u \in Accounts, id \in FileIds, userId \in Accounts :
           UnshareFile(u, id, userId)

SpecShare == Init /\ [][ShareNext]_vars

\* ------------------------------------------------------ calls of hasPermission

\* the sharedWith lists of at most n entries a document of owner can carry:
\* share keeps one entry for each user
RECURSIVE GrantLists(_, _)
GrantLists(owner, n) ==
    IF n = 0 THEN {<<>>}
    ELSE LET shorter == GrantLists(owner, n - 1)
         IN  shorter \cup
             {Append(sw, Grant(u, p, owner, "")) :
                 sw \in {l \in shorter : Len(l) = n - 1},
                 u \in Accounts,
                 p \in {PermissionLevels[i] : i \in 1..Len(PermissionLevels)}}

DistinctGrantees(sw) ==
    \A i, j \in 1..Len(sw) : i # j => sw[i].user # sw[j].user

InitPermission ==
    /\ folders = <<>>
    /\ files = <<>>
    /\ nextFolderId = 1
    /\ nextFileId = 1
    /\ storageUsed = [u \in Accounts |-> 0]
    /\ bucket = {}
    /\ last = NoRequest
    /\ nops = 0
    /\ budget = MaxOps
    /\ procs = <<>>
    /\ \E owner \in Accounts, userId \in Accounts, i \in 1..Len(PermissionLevels) :
       \E sw \in {l \in GrantLists(owner, MaxGrants) : DistinctGrantees(l)} :
           probe = [NoProbe EXCEPT !.doc = [owner |-> owner, sharedWith |-> sw],
                        !.userId = userId, !.required = PermissionLevels[i]]

\* folder.hasPermission(userId, required)
FolderHasPermission ==
    /\ probe.asked = "none"
    /\ probe' = [probe EXCEPT !.asked = "folder",
                     !.result = hasPermission(probe.doc, probe.userId, probe.required)]
    /\ UNCHANGED <<folders, files, nextFolderId, nextFileId, storageUsed, bucket,
                 last, nops, budget, procs>>

\* file.hasPermission(userId, required)
FileHasPermission ==
    /\ probe.asked = "none"
    /\ probe' = [probe EXCEPT !.asked = "file",
                     !.result = fileHasPermission(probe.doc, probe.userId, probe.required)]
    /\ UNCHANGED <<folders, files, nextFolderId, nextFileId, storageUsed, bucket,
                 last, nops, budget, procs>>

PermissionNext ==
    \/ FolderHasPermission
    \/ FileHasPermission

SpecPermission == InitPermission /\ [][PermissionNext]_vars

\* ------------------------------------------------- runs of the downloads

\* one stored, active file of some owner, with any list of grants the File
\* schema admits: distinct grantees, each with one of the three levels
InitDownloads ==
    /\ folders = <<>>
    /\ nextFolderId = 1
    /\ nextFileId = 2
    /\ bucket = {Key("uploads", 1)}
    /\ last = NoRequest
    /\ nops = 0
    /\ budget = MaxOps
    /\ probe = NoProbe
    /\ procs = <<>>
    /\ \E owner \in Users :
       \E sw \in {l \in GrantLists(owner, MaxGrants) :
                     /\ DistinctGrantees(l)
                     /\ \A i \in 1..Len(l) : l[i].user # owner} :
           /\ files = (1 :> [NewFile(Null, owner) EXCEPT
                                !.size = 1, !.key = Key("uploads", 1),
                                !.sharedWith = sw])
           /\ storageUsed = [u \in Accounts |-> IF u = owner THEN 1 ELSE 0]

\* every account asks for the file
DownloadsNext ==
    \E u \in Accounts, id \in FileIds, urlOk \in BOOLEAN : DownloadFile(u, id, urlOk)

SpecDownloads == InitDownloads /\ [][DownloadsNext]_vars

\* ---------------------------------------------------------------- the tree

\* the folders of S and all folders below them, by a fixpoint over children
RECURSIVE SubtreeOf(_, _)
SubtreeOf(fs, S) ==
    LET T == S \cup {c \in DOMAIN fs : fs[c].parent \in S}
    IN  IF T = S THEN S ELSE SubtreeOf(fs, T)

Subtree(fs, id) == SubtreeOf(fs, {id})

\* following parent references from id reaches null within n hops
RECURSIVE ReachesRoot(_, _, _)
ReachesRoot(fs, id, n) ==
    IF id = Null THEN TRUE
    ELSE IF n = 0 \/ id \notin DOMAIN fs THEN FALSE
    ELSE ReachesRoot(fs, fs[id].parent, n - 1)

LiveChildren(fs, p) == {c \in DOMAIN fs : fs[c].parent = p /\ ~fs[c].isTrash}

\* s starts with pre
StartsWith(s, pre) == Len(s) >= Len(pre) /\ SubSeq(s, 1, Len(pre)) = pre

\* ------------------------------------------------------------------ claims

\* C1: every folder with a non-null parent has
\* path = parent.path + parent.name + "/".
C1_PathInvariant ==
    \A f \in DOMAIN folders :
        (folders[f].parent # Null /\ folders[f].parent \in DOMAIN folders) =>
            folders[f].path =
                folders[folders[f].parent].path \o <<folders[folders[f].parent].name, "/">>

\* C2: in every reachable state, a moveFolder(A, P) by a caller allowed to
\* edit A and P, where P is A or a folder below A, is answered with the
\* circular-reference error and leaves every folder as it was (moveFolder
\* writes no file).
C2_CircularMoveRejected ==
    \A u \in Users : \A A \in DOMAIN folders : \A P \in Subtree(folders, A) :
        ( /\ MayAccess(folders[A], u, "edit")
          /\ MayAccess(folders[P], u, "edit") )
        => MoveFolderOp(folders, u, A, P) = Reply(folders, "Circular")

\* C2 witness: a folder with a folder two levels below it, whose owner asks to
\* move it there and is refused; the refused request leaves this same state
C2_Witness ==
    \E A \in DOMAIN folders : \E P \in Subtree(folders, A) :
        /\ P # A
        /\ folders[P].parent # A
        /\ MayAccess(folders[P], folders[A].owner, "edit")
        /\ MoveFolderOp(folders, folders[A].owner, A, P).status = "Circular"

\* C3: no folder is its own ancestor: from every folder the parent
\* references reach null within (number of folders) hops.
C3_Acyclic ==
    \A f \in DOMAIN folders :
        ReachesRoot(folders, f, Cardinality(DOMAIN folders))

\* C3 witness: a nested tree on which a moveFolder has just run to its end
C3_Witness ==
    /\ last.op = "moveFolder"
    /\ last.status = "OK"
    /\ last.parent # Null
    /\ \E f \in DOMAIN folders :
           folders[f].parent # Null /\ folders[folders[f].parent].parent # Null

\* C4: every folder's folderCount is the number of its child folders that
\* exist and are not in the trash.
C4_FolderCountInvariant ==
    \A p \in DOMAIN folders :
        folders[p].folderCount = Cardinality(LiveChildren(folders, p))

\* C5: after create A at root, create B under A, create C under B and
\* moveFolder(B, root) by the owner: A.folderCount = 0, B.path = "/", and
\* C.path starts with "/B/" and not with "/A/B/".
C5_MoveToRootScenario ==
    ( /\ last.op = "moveFolder"
      /\ last.user = folders[2].owner )
    => ( /\ folders[1].folderCount = 0
         /\ folders[2].path = <<"/">>
         /\ StartsWith(folders[3].path, <<"/", folders[2].name, "/">>)
         /\ ~StartsWith(folders[3].path,
                <<"/", folders[1].name, "/", folders[2].name, "/">>) )

\* C6: no two folders out of the trash with the same parent and the same
\* owner have the same name.
C6_NameUnique ==
    \A i, j \in DOMAIN folders :
        ( /\ i # j
          /\ ~folders[i].isTrash /\ ~folders[j].isTrash
          /\ folders[i].parent = folders[j].parent
          /\ folders[i].owner = folders[j].owner )
        => folders[i].name # folders[j].name

\* C6 witness: two live siblings of one owner, after a rename or a move that
\* succeeded
C6_Witness ==
    /\ last.op \in {"updateFolder", "moveFolder"}
    /\ last.status = "OK"
    /\ \E i, j \in DOMAIN folders :
           /\ i # j
           /\ last.id = i
           /\ ~folders[i].isTrash /\ ~folders[j].isTrash
           /\ folders[i].parent = folders[j].parent
           /\ folders[i].owner = folders[j].owner

\* no folder names a parent that does not exist
NoOrphanFolder(fs) ==
    \A f \in DOMAIN fs : fs[f].parent # Null => fs[f].parent \in DOMAIN fs

\* C7: after a successful permanent deleteFolder(F), F and every folder
\* below F are gone, every file that was in one of them is gone, and no
\* remaining folder names a parent that does not exist.
C7_PermanentDeleteRemovesSubtree ==
    [][ ( /\ last'.op = "deleteFolder"
          /\ last'.permanent
          /\ last'.status = "OK" )
        => LET gone == Subtree(folders, last'.id)
           IN  /\ gone \cap DOMAIN folders' = {}
               /\ \A x \in DOMAIN files :
                      files[x].folder \in gone => x \notin DOMAIN files'
               /\ NoOrphanFolder(folders') ]_vars

\* C7 witness: two folders were created and one file uploaded, and the fourth
\* change, a permanent delete, removed all three: it deleted a folder, the
\* folder below it and the file they held
C7_Witness ==
    /\ last.op = "deleteFolder"
    /\ last.permanent
    /\ last.status = "OK"
    /\ nops = 4
    /\ nextFolderId = 3
    /\ nextFileId = 2
    /\ folders = <<>>
    /\ files = <<>>

\* an id that was given to a folder which was since deleted for good
WasDeleted(id) == id \in FolderIds /\ id < nextFolderId /\ id \notin DOMAIN folders

\* C8 as stated: in every reachable state, a permanent deleteFolder on an id
\* that was already deleted for good returns no error and changes no folder,
\* file or counter.
C8_SecondDeleteNoError ==
    \A u \in Users : \A id \in FolderIds :
        WasDeleted(id) =>
            DeleteFolderOp(Db(folders, files), u, id, TRUE) =
                [folders |-> folders, files |-> files, status |-> "OK"]

\* C8 as amended: in every reachable state, a permanent deleteFolder on an id
\* that was already deleted for good changes no folder, file or counter, and
\* is answered with the not-found error.
C8_SecondDeleteNotFound ==
    \A u \in Users : \A id \in FolderIds :
        WasDeleted(id) =>
            DeleteFolderOp(Db(folders, files), u, id, TRUE) =
                [folders |-> folders, files |-> files, status |-> "NotFound"]

\* C8 witness: a folder was just deleted for good and another folder and a
\* file are still there: the state in which the delete is invoked again
C8_Witness ==
    /\ last.op = "deleteFolder"
    /\ last.permanent
    /\ last.status = "OK"
    /\ WasDeleted(last.id)
    /\ folders # <<>>
    /\ files # <<>>

\* C9: a successful deleteFolder(F) with permanent = false sets F.isTrash,
\* stamps F's deletion time, sets status deleted on every file in F, sets
\* isTrash on every child folder of F, takes 1 from the folderCount of F's
\* parent, and destroys no folder or file record.
C9_TrashEffects ==
    [][ ( /\ last'.op = "deleteFolder"
          /\ ~last'.permanent
          /\ last'.status = "OK" )
        => LET F == last'.id
               P == folders[F].parent
           IN  /\ DOMAIN folders' = DOMAIN folders
               /\ DOMAIN files' = DOMAIN files
               /\ folders'[F].isTrash
               /\ folders'[F].deletedAt
               /\ \A x \in DOMAIN files :
                      files[x].folder = F => files'[x].status = "deleted"
               /\ \A c \in DOMAIN folders :
                      folders[c].parent = F => folders'[c].isTrash
               /\ P # Null =>
                      folders'[P].folderCount = folders[P].folderCount - 1 ]_vars

\* C10: after a folder F was moved to the trash, every folder below F is in
\* the trash and every file in F or below it has status deleted.
C10_TrashCascadesDeep ==
    ( /\ last.op = "deleteFolder"
      /\ ~last.permanent
      /\ last.status = "OK" )
    => LET below == Subtree(folders, last.id)
       IN  /\ \A d \in below : folders[d].isTrash
           /\ \A x \in DOMAIN files :
                  files[x].folder \in below => files[x].status = "deleted"

\* C11: in every state reached by createFolder, moveFolder and deleteFolder
\* requests (trash, permanent, trash then permanent, trash repeated), every
\* folder's folderCount, fileCount and totalSize are at least 0.
C11_CountsNonNegative ==
    \A f \in DOMAIN folders :
        /\ folders[f].folderCount >= 0
        /\ folders[f].fileCount >= 0
        /\ folders[f].totalSize >= 0

\* C12: hasPermission(userId, required) on a folder or file is true for the
\* owner at every level; for a non-owner whose grant is edit it is true for
\* view and edit and false for manage; for a non-owner with no grant entry it
\* is false at every level.
C12_GrantPrecedence ==
    probe.asked # "none" =>
        LET d == probe.doc
            u == probe.userId
            mine == {i \in 1..Len(d.sharedWith) : d.sharedWith[i].user = u}
        IN  /\ u = d.owner => probe.result
            /\ (u # d.owner /\ mine = {}) => ~probe.result
            /\ (u # d.owner /\ \E i \in mine : d.sharedWith[i].permission = "edit")
                   => (probe.result <=> probe.required \in {"view", "edit"})

\* C12 witness: a file whose second grant gives a non-owner edit, asked for
\* manage and refused
C12_Witness ==
    /\ probe.asked = "file"
    /\ probe.userId # probe.doc.owner
    /\ Len(probe.doc.sharedWith) = 2
    /\ probe.doc.sharedWith[2].user = probe.userId
    /\ probe.doc.sharedWith[2].permission = "edit"
    /\ probe.required = "manage"
    /\ ~probe.result

\* the sharer owns the document or holds a manage grant on it
OwnsOrManages(doc, sharer) ==
    \/ doc.owner = sharer
    \/ \E i \in 1..Len(doc.sharedWith) :
           doc.sharedWith[i].user = sharer /\ doc.sharedWith[i].permission = "manage"

\* the share requests with an existing grantee and a valid level
ShareRequests ==
    [sharer : Accounts, grantee : Accounts,
     permission : {PermissionLevels[i] : i \in 1..Len(PermissionLevels)},
     message : MessageInputs]

\* C13: in every reachable state, for an existing folder or file, an existing
\* grantee and a level among view, edit, manage, the share succeeds if and
\* only if the sharer owns the resource or holds a manage grant on it, and
\* the grantee is not the sharer.
C13_ShareSucceedsIff ==
    \A q \in ShareRequests :
        /\ \A id \in DOMAIN folders :
               (ShareFolderOp(folders, q.sharer, id, q.grantee, q.permission,
                              q.message).status = "OK")
               <=> (OwnsOrManages(folders[id], q.sharer) /\ q.grantee # q.sharer)
        /\ \A id \in DOMAIN files :
               (ShareFileOp(files, q.sharer, id, q.grantee, q.permission,
                            q.message).status = "OK")
               <=> (OwnsOrManages(files[id], q.sharer) /\ q.grantee # q.sharer)

\* after the share q, sharedWith went from before to after as an upsert that
\* replaces: one entry for the grantee, which is the grant of this request,
\* and the entries of the other grantees as they were, in their order
UpsertReplaced(before, after, q) ==
    LET Other(e) == e.user # q.grantee
    IN  /\ Cardinality({i \in 1..Len(after) : after[i].user = q.grantee}) = 1
        /\ \E i \in 1..Len(after) :
               after[i] = Grant(q.grantee, q.permission, q.sharer, q.message)
        /\ SelectSeq(after, Other) = SelectSeq(before, Other)

\* C14: in every state reached by shares and unshares, a share that succeeds
\* leaves exactly one entry for its grantee, that entry carries the
\* permission, the sharer and the message of this request, and the entries
\* of the other grantees are unchanged.
C14_ShareUpserts ==
    \A q \in ShareRequests :
        /\ \A id \in DOMAIN folders :
               LET r == ShareFolderOp(folders, q.sharer, id, q.grantee,
                                      q.permission, q.message)
               IN  r.status = "OK" =>
                       UpsertReplaced(folders[id].sharedWith,
                                      r.folders[id].sharedWith, q)
        /\ \A id \in DOMAIN files :
               LET r == ShareFileOp(files, q.sharer, id, q.grantee,
                                    q.permission, q.message)
               IN  r.status = "OK" =>
                       UpsertReplaced(files[id].sharedWith,
                                      r.files[id].sharedWith, q)

\* C15: in every reachable state, an administrator who is neither the owner
\* nor a grantee of a folder is not refused with the permission-denied error
\* by updateFolder, moveFolder, deleteFolder or shareFolder on it.
C15_AdminBypass ==
    \A a \in {u \in Accounts : Role[u] = "admin"} : \A id \in DOMAIN folders :
        ( /\ folders[id].owner # a
          /\ \A i \in 1..Len(folders[id].sharedWith) :
                 folders[id].sharedWith[i].user # a )
        => /\ \A name \in NameInputs :
                  UpdateFolderOp(folders, a, id, name).status # "Forbidden"
           /\ \A parentId \in {Null} \cup FolderIds :
                  MoveFolderOp(folders, a, id, parentId).status # "Forbidden"
           /\ \A permanent \in BOOLEAN :
                  DeleteFolderOp(Db(folders, files), a, id, permanent).status
                      # "Forbidden"
           /\ \A q \in ShareRequests :
                  ShareFolderOp(folders, a, id, q.grantee, q.permission,
                                q.message).status # "Forbidden"

\* the answers that are validation errors
ValidationErrors ==
    {"NotFound", "Forbidden", "NameConflict", "Circular", "QuotaExceeded"}

\* C16: in every reachable state, a createFolder, updateFolder, moveFolder,
\* deleteFolder, shareFolder or uploadFile request that is answered with a
\* validation error (not found, permission denied, name conflict, circular
\* reference, quota exceeded) leaves the folders, files, grants, counters
\* and stored objects exactly as they were.
C16_ValidationBeforeMutation ==
    \A u \in Accounts :
        /\ \A name \in NameInputs, parent \in {Null} \cup FolderIds :
               LET r == CreateFolderOp(folders, u, name, parent, nextFolderId)
               IN  r.status \in ValidationErrors => r.folders = folders
        /\ \A id \in FolderIds, name \in NameInputs :
               LET r == UpdateFolderOp(folders, u, id, name)
               IN  r.status \in ValidationErrors => r.folders = folders
        /\ \A id \in FolderIds, parentId \in {Null} \cup FolderIds :
               LET r == MoveFolderOp(folders, u, id, parentId)
               IN  r.status \in ValidationErrors => r.folders = folders
        /\ \A id \in FolderIds, permanent \in BOOLEAN :
               LET r == DeleteFolderOp(Db(folders, files), u, id, permanent)
               IN  r.status \in ValidationErrors =>
                       (r.folders = folders /\ r.files = files)
        /\ \A id \in FolderIds, userId \in Accounts, permission \in PermissionInputs :
               LET r == ShareFolderOp(folders, u, id, userId, permission, "m")
               IN  r.status \in ValidationErrors => r.folders = folders
        /\ \A size \in SizeInputs, verdict \in Verdicts, fault \in UploadFaults :
               LET r == UploadFileOp(Store(files, storageUsed, bucket), u, Null,
                                     size, verdict, fault, nextFileId)
               IN  r.status \in ValidationErrors =>
                       /\ r.files = files
                       /\ r.storageUsed = storageUsed
                       /\ r.bucket = bucket

\* C16 witness: a state in which a rename is refused for a name conflict, a
\* move for a name conflict and another for a circular reference, a delete
\* for lack of permission, and an upload for the quota
C16_Witness ==
    /\ \E u \in Users, id \in FolderIds, name \in Names :
           UpdateFolderOp(folders, u, id, name).status = "NameConflict"
    /\ \E u \in Users, id \in FolderIds, parentId \in FolderIds :
           MoveFolderOp(folders, u, id, parentId).status = "NameConflict"
    /\ \E u \in Users, id \in FolderIds, parentId \in FolderIds :
           MoveFolderOp(folders, u, id, parentId).status = "Circular"
    /\ \E u \in Users, id \in FolderIds :
           DeleteFolderOp(Db(folders, files), u, id, TRUE).status = "Forbidden"
    /\ \E u \in Users :
           UploadFileOp(Store(files, storageUsed, bucket), u, Null, 1, "benign",
                        "none", nextFileId).status = "QuotaExceeded"

\* ------------------------------------------------------------------------ C17

\* the changes of status the lifecycle of a file allows
AllowedStatusChanges ==
    {<<"uploading", "processing">>, <<"processing", "active">>,
     <<"active", "quarantined">>, <<"quarantined", "active">>,
     <<"active", "deleted">>, <<"quarantined", "deleted">>}

\* C17: every change of the status of a file that a request makes is one of
\* uploading -> processing, processing -> active, active -> quarantined,
\* quarantined -> active, active -> deleted, quarantined -> deleted; so
\* quarantineFile changes the status only of an active file and the status
\* of a deleted file never changes again.
C17_StatusTransitions ==
    [][\A id \in DOMAIN files \cap DOMAIN files' :
           files'[id].status # files[id].status =>
               <<files[id].status, files'[id].status>> \in AllowedStatusChanges]_vars

\* ------------------------------------------------------------------------ C18

\* C18: when the relocation in the bucket fails during quarantineFile or
\* restoreFile, the request is answered with a server error and the record of
\* the file, its status and its storage key with it, is what it was.
C18_FailedRelocationKeepsRecord ==
    \A id \in DOMAIN files :
        /\ \A outcome \in QuarantineOutcomes, saveOk \in BOOLEAN :
               LET st == Store(files, storageUsed, bucket)
                   moved == StorageQuarantine(bucket, files[id].key, outcome)
                   r == QuarantineFileOp(st, id, outcome, saveOk)
               IN  (files[id].status # "quarantined" /\ ~moved.ok) =>
                       /\ r.status = "ServerError"
                       /\ r.files = files
        /\ \A outcome \in RestoreOutcomes, saveOk \in BOOLEAN :
               LET st == Store(files, storageUsed, bucket)
                   moved == StorageRestore(bucket, files[id].key, outcome)
                   r == RestoreFileOp(st, id, outcome, saveOk)
               IN  (files[id].status = "quarantined" /\ ~moved.ok) =>
                       /\ r.status = "ServerError"
                       /\ r.files = files

\* a quarantine has just failed after its copy was made: the object is in
\* both areas and the file is still active under its upload key
C18_Witness ==
    /\ last.op = "quarantineFile"
    /\ last.status = "ServerError"
    /\ last.id \in DOMAIN files
    /\ files[last.id].status = "active"
    /\ files[last.id].key = Key("uploads", last.id)
    /\ Key("uploads", last.id) \in bucket
    /\ Key("quarantine", last.id) \in bucket

\* ------------------------------------------------------------------------ C19

\* the object of the file is in the quarantine area of the bucket
InQuarantineArea(id) == Key("quarantine", id) \in bucket

\* C19: after a quarantineFile or restoreFile request has returned, with
\* success or with a failure at any step, the status of the file is
\* quarantined exactly when its object is in the quarantine area.
C19_StatusMatchesArea ==
    (last.op \in {"quarantineFile", "restoreFile"} /\ last.id \in DOMAIN files) =>
        (files[last.id].status = "quarantined" <=> InQuarantineArea(last.id))

\* ------------------------------------------------------------------------ C20

\* C20: restoreFile of a quarantined file, with a storage that works, makes
\* the file active, stamps the restoration, and leaves versions and
\* currentVersion as they were.
C20_RestoreKeepsHistory ==
    \A id \in DOMAIN files :
        (files[id].status = "quarantined" /\ files[id].key \in bucket) =>
            LET r == RestoreFileOp(Store(files, storageUsed, bucket), id, "ok", TRUE)
            IN  /\ r.status = "OK"
                /\ r.files[id].status = "active"
                /\ r.files[id].restoredAt
                /\ r.files[id].versions = files[id].versions
                /\ r.files[id].currentVersion = files[id].currentVersion

\* ------------------------------------------------------------------------ C21

\* C21: an upload whose assessment returns score 85, level high, isMalicious
\* true leaves a file record with status quarantined, and downloadFile on it
\* is refused as forbidden.
C21_MaliciousUploadQuarantined ==
    \A u \in Users :
        LET id == nextFileId
            r == UploadFileOp(Store(files, storageUsed, bucket), u, Null, 1,
                              Verdict(Assessment(85, "high", TRUE)), "none", id)
        IN  /\ id \in DOMAIN r.files
            /\ r.files[id].status = "quarantined"
            /\ DownloadFileOp(r.files, u, id, TRUE).status = "Forbidden"

\* ------------------------------------------------------------------------ C22

C23_HighRiskNeverActive ==
    probe.reply.kind # "throws" =>
        LET a == calculateRiskScore(probe.backend, probe.reply)
        IN  (a.isMalicious \/ a.riskLevel \in {"high", "critical"}) =>
                \A id \in DOMAIN files : files[id].status # "active"

\* ------------------------------------------------------------------------ C24

\* C24: a record that uploadFile has created is not active before the
\* storage has stored its bytes.
C24_NotActiveBeforeStored ==
    \A p \in DOMAIN procs :
        procs[p].pc = "saved" => files[procs[p].id].status # "active"

\* ------------------------------------------------------------------------ C25

\* C25: when uploadFile fails after its record was created, in the storage
\* upload, the save of the locator, the update of the usage or the enqueueing
\* of the scan, the record is gone and the owner's storageUsed is what it was
\* before the request (no other request running).
C25_FailedUploadLeavesNothing ==
    \A p \in DOMAIN procs :
        (procs[p].pc = "failed" /\ \A q \in DOMAIN procs \ {p} : procs[q].pc = "idle") =>
            /\ procs[p].id \notin DOMAIN files
            /\ storageUsed[procs[p].user] = procs[p].read

\* ------------------------------------------------------------------------ C26

\* C26: over every upload, update, quarantine, restore and download of a
\* file, currentVersion never decreases and the entries already in versions
\* stay as they are, in their places.
C26_VersionsMonotone ==
    [][\A id \in DOMAIN files \cap DOMAIN files' :
           /\ files'[id].currentVersion >= files[id].currentVersion
           /\ Len(files'[id].versions) >= Len(files[id].versions)
           /\ SubSeq(files'[id].versions, 1, Len(files[id].versions))
                  = files[id].versions]_vars

\* a file that was uploaded, quarantined and restored: three entries, and
\* the restore was the last request
C26_Witness ==
    /\ last.op = "restoreFile"
    /\ last.status = "OK"
    /\ last.id \in DOMAIN files
    /\ Len(files[last.id].versions) = 3
    /\ files[last.id].currentVersion = 4
    /\ files[last.id].downloads > 0

\* ------------------------------------------------------------------------ C27

\* C27: a save that changes the storage key of an existing record appends
\* one entry that holds the key and the size the record had before the
\* change, and currentVersion grows by exactly 1.
C27_EntryHoldsPreviousKey ==
    [][\A id \in DOMAIN files \cap DOMAIN files' :
           files'[id].key # files[id].key =>
               /\ Len(files'[id].versions) = Len(files[id].versions) + 1
               /\ files'[id].versions[Len(files'[id].versions)].storageKey
                      = files[id].key
               /\ files'[id].versions[Len(files'[id].versions)].size = files[id].size
               /\ files'[id].currentVersion = files[id].currentVersion + 1]_vars

\* ------------------------------------------------------------------------ C28

RECURSIVE SumSizes(_, _)
\* the sum of the sizes of the records of fl whose ids are in ids
SumSizes(fl, ids) ==
    IF ids = {} THEN 0
    ELSE LET id == CHOOSE i \in ids : TRUE
         IN  fl[id].size + SumSizes(fl, ids \ {id})

\* C28: after any sequence of uploads, deleteFile and permanent deleteFolder,
\* each owner's storageUsed is the sum of the sizes of the owner's records.
C28_UsageIsSumOfSizes ==
    \A u \in Accounts :
        storageUsed[u] = SumSizes(files, {id \in DOMAIN files : files[id].owner = u})

\* ------------------------------------------------------------------------ C29

\* two requests that race on overlapping subtrees: moves of one folder to
\* different destinations, or a move of A under B and one of B under A
RacingMoves ==
    /\ \A p \in DOMAIN procs :
           /\ procs[p].pc = "done"
           /\ procs[p].id \in DOMAIN folders
           /\ procs[p].parentId \in {Null} \cup DOMAIN folders
    /\ \/ procs[1].id = procs[2].id /\ procs[1].parentId # procs[2].parentId
       \/ procs[1].parentId = procs[2].id /\ procs[2].parentId = procs[1].id

C30_ConcurrentUploadsAddUp ==
    (/\ \A p \in DOMAIN procs : procs[p].pc = "created"
     /\ procs[1].user = procs[2].user) =>
        storageUsed[procs[1].user] = procs[1].size + procs[2].size

\* ------------------------------------------------------------------------ C31

\* the files directly in folder id whose status is not deleted
LiveFilesIn(fl, id) ==
    {f \in DOMAIN fl : fl[f].folder = id /\ fl[f].status # "deleted"}

\* C31: after any sequence of uploads, deleteFile and deleteFolder, each
\* folder's fileCount is the number of its live direct files and its totalSize
\* the sum of their sizes.
C31_FileCountInvariant ==
    \A id \in DOMAIN folders :
        /\ folders[id].fileCount = Cardinality(LiveFilesIn(files, id))
        /\ folders[id].totalSize = SumSizes(files, LiveFilesIn(files, id))

\* ------------------------------------------------------------------------ C32

\* the folders reached from S through child folders that are not in the trash
RECURSIVE LiveSubtreeOf(_, _)
LiveSubtreeOf(fs, S) ==
    LET T == S \cup {c \in DOMAIN fs : fs[c].parent \in S /\ ~fs[c].isTrash}
    IN  IF T = S THEN S ELSE LiveSubtreeOf(fs, T)

\* the size of F by the records alone: the sizes of the files that are not
\* deleted, in F and in the folders reached from F through live child folders
FolderSizeByRecords(F) ==
    SumSizes(files, {x \in DOMAIN files :
                        /\ files[x].status # "deleted"
                        /\ files[x].folder \in LiveSubtreeOf(folders, {F})})

C33_BreadcrumbsRootFirst ==
    \A F \in DOMAIN folders :
        LET r == getBreadcrumbs(folders, F)
            b == r.breadcrumbs
        IN  /\ r.ended
            /\ b[1] = RootCrumb
            /\ Len(b) >= 2
            /\ b[Len(b)].id = F
            /\ \A i \in 2..Len(b) :
                   /\ b[i].id \in DOMAIN folders
                   /\ folders[b[i].id].parent = b[i - 1].id
                   /\ b[i].name = folders[b[i].id].name
                   /\ b[i].path = fullPath(folders[b[i].id])

\* a folder two levels below the root: four elements
C33_Witness ==
    \E F \in DOMAIN folders :
        /\ folders[F].parent # Null
        /\ folders[folders[F].parent].parent # Null
        /\ Len(getBreadcrumbs(folders, F).breadcrumbs) = 4

\* ------------------------------------------------------------------------ C34

\* the user owns the document or is named in one of its grants
OwnsOrIsGranted(doc, userId) ==
    \/ doc.owner = userId
    \/ \E i \in 1..Len(doc.sharedWith) : doc.sharedWith[i].user = userId

\* the pages and the page sizes asked for
Pages == 1..2
Limits == 1..2

\* C34: for every caller and every search (any query, inside a folder or at
\* root, of folders, files or both), every returned item is owned by the
\* caller or carries a grant for the caller.
C34_SearchReturnsOnlyViewable ==
    \A userId \in Users, id \in {Null} \cup DOMAIN folders, query \in Names,
       type \in SearchTypes, page \in Pages, limit \in Limits,
       strictQuery \in BOOLEAN :
        LET r == searchInFolder(Db(folders, files), userId, id, query, type, 1,
                                page, limit, strictQuery)
        IN  \A i \in 1..Len(r.items) :
                OwnsOrIsGranted(IF r.items[i].type = "folder"
                                THEN folders[r.items[i].id]
                                ELSE files[r.items[i].id],
                                userId)

\* ------------------------------------------------------------------------ C35

\* the merged, sorted list of all that a combined search matches: its first
\* page with a page size that holds every folder and file
MergedSorted(userId, id, query, sortDirection, strictQuery) ==
    searchInFolder(Db(folders, files), userId, id, query, "none", sortDirection,
                   1, MaxFolders + MaxFiles, strictQuery).items

\* C35: a combined search returns, for every page p and page size L, exactly
\* the items at positions (p-1)*L .. p*L-1 of the merged, sorted list of all
\* matching folders and files.
C35_MergedPagination ==
    \A id \in {Null} \cup DOMAIN folders, query \in Names,
       sortDirection \in {1, -1}, page \in Pages, limit \in Limits,
       strictQuery \in BOOLEAN :
        LET r == searchInFolder(Db(folders, files), "u1", id, query, "none",
                                sortDirection, page, limit, strictQuery)
        IN  r.status = "OK" =>
                r.items = Slice(MergedSorted("u1", id, query, sortDirection,
                                             strictQuery),
                                (page - 1) * limit, page * limit)

\* ------------------------------------------------------------------------ C37

\* the records of owner u whose bytes are in the bucket
StoredFilesOf(u) ==
    {x \in DOMAIN files : files[x].owner = u /\ files[x].key \in bucket}

\* C37: in every state reached by any interleaving of uploads of one owner,
\* starting from storageUsed <= storageQuota, the sizes of the owner's stored
\* files sum to no more than storageQuota.
C37_QuotaHoldsUnderConcurrency ==
    \A u \in Users : SumSizes(files, StoredFilesOf(u)) <= StorageQuota

\* ------------------------------------------------------------------------ C36

\* both requests are answered and asked for the same name, parent and owner
SameCreates ==
    /\ \A p \in DOMAIN procs : procs[p].pc = "done"
    /\ procs[1].name = procs[2].name
    /\ procs[1].parent = procs[2].parent
    /\ procs[1].user = procs[2].user

\* C36: of two concurrent createFolder requests with the same name, parent
\* and owner, in any interleaving, at most one succeeds, and no two live
\* siblings of one owner share a name in the resulting state.
C36_ConcurrentCreatesUnique ==
    SameCreates =>
        /\ ~(procs[1].status = "Created" /\ procs[2].status = "Created")
        /\ \A i, j \in DOMAIN folders :
               ( /\ i # j
                 /\ folders[i].name = folders[j].name
                 /\ folders[i].parent = folders[j].parent
                 /\ folders[i].owner = folders[j].owner )
               => folders[i].isTrash \/ folders[j].isTrash

\* ------------------------------------------------------------------------ C38

\* C38: no storageUsed is negative in any state, and when two concurrent
\* deleteFile requests on the same file are both answered the file's size has
\* been subtracted once: the owner's storageUsed is the sum of the sizes of
\* the owner's remaining records.
C38_SizeSubtractedOnce ==
    /\ \A u \in Accounts : storageUsed[u] >= 0
    /\ (/\ \A p \in DOMAIN procs : procs[p].pc = "done"
        /\ procs[1].id = procs[2].id
        /\ procs[1].user = procs[2].user) =>
           \A u \in Users :
               storageUsed[u] =
                   SumSizes(files, {x \in DOMAIN files : files[x].owner = u})

\* ------------------------------------------------------------------------ C39

\* the caller's own standing on a file: the owner, or the caller's own grant
\* entry, of level view or above
OwnStanding(file, userId) ==
    \/ file.owner = userId
    \/ \E i \in 1..Len(file.sharedWith) :
           /\ file.sharedWith[i].user = userId
           /\ file.sharedWith[i].permission \in {"view", "edit", "manage"}

C40_OnlyActiveServed ==
    \A userId \in Accounts, id \in DOMAIN files :
        DownloadFileOp(files, userId, id, TRUE).status = "Redirect"
            => files[id].status = "active"

====
